---- MODULE Spec2Model ----
(***************************************************************************)
(* LiteLLMGatewayClient (core/client/llm_gateway/litellm_gateway_client.py) *)
(* as a state machine.  A fixed set of invocation slots stands for the      *)
(* calls that are in flight on one client instance; each slot runs one of   *)
(* the four operations.  The two streaming operations advance one network   *)
(* read at a time (the POST, then one line per step), which is where other  *)
(* invocations can interleave.                                              *)
(*                                                                          *)
(* LiteLLMResponseConverter and LiteLLMRequestConverter are imported by the *)
(* client but their module is not among the sources; parse_streaming_line,  *)
(* process_streaming_chunk and to_llm_response follow sections 4.3-4.5 of   *)
(* the specification.                                                       *)
(***************************************************************************)
EXTENDS Integers, Sequences, FiniteSets, TLC

\* ------------------------------------------------------------------ bounds
\* Lines the transport delivers, over all calls in flight.
MaxLines == 2
\* Chunks of the generation a blocking call is answered with.
MaxAnswer == 2

\* Two calls in flight on the one client: enough for any pair to interleave.
Invs == {1, 2}

\* --------------------------------------------------------------- constants
\* The only status the four operations accept (response.status_code != 200).
HTTP_OK == 200

\* Statuses the gateway may answer with: the accepted one, another 2xx, and
\* a failure.
Statuses == {200, 201, 500}
ErrorBodies == {"server error"}

ZeroUsage == [prompt_tokens |-> 0, completion_tokens |-> 0, total_tokens |-> 0]
SomeUsage == [prompt_tokens |-> 1, completion_tokens |-> 1, total_tokens |-> 2]

\* ---------------------------------------------------------- wire protocol
\* Structured chunks (the JSON object after "data: ").  A key that the JSON
\* object does not carry is absent from the record.  Text is a sequence of
\* characters.
ChunkSet ==
    { [content |-> <<"a">>],
      [content |-> <<"b">>, finish_reason |-> "stop", usage |-> SomeUsage],
      [tool_calls |-> << [index |-> 0, name |-> "calc", arguments |-> <<"{">>] >>],
      [tool_calls |-> << [index |-> 1, name |-> "f", arguments |-> <<"1">>],
                         [index |-> 0, arguments |-> <<"}">>] >>] }

EmptyLine == [kind |-> "empty"]
BlankLine == [kind |-> "blank"]
DoneLine == [kind |-> "data", payload |-> "[DONE]"]
BadLine == [kind |-> "data", payload |-> "{bad"]
ChunkLine(c) == [kind |-> "data", json |-> c]

\* Every line the transport may deliver.
Lines == {EmptyLine, BlankLine, DoneLine, BadLine} \cup {ChunkLine(c) : c \in ChunkSet}

\* ------------------------------------------------------- StreamLineParser
Null == [null |-> TRUE]
DoneMarker == [done |-> TRUE]

\* parse_streaming_line(line): None for a blank or unparseable line, the
\* done marker for the terminal sentinel, the chunk otherwise.
parse_streaming_line(line) ==
    IF line.kind \in {"empty", "blank"} THEN Null
    ELSE IF "json" \in DOMAIN line THEN line.json
    ELSE IF line.payload = "[DONE]" THEN DoneMarker
    ELSE Null

\* -------------------------------------------------------- ChunkAccumulator
\* accumulated_state = {} : nothing merged yet.
EmptyState ==
    [text |-> <<>>, tool_calls |-> <<>>, finish_reason |-> "none", usage |-> ZeroUsage]

\* A local that no assignment has bound yet.
Unbound == [unbound |-> TRUE]

NoFragment == [name |-> "", arguments |-> <<>>]

\* One tool-call fragment merged into the fragments keyed by position index:
\* a name overwrites, an argument string is appended.
MergeFragment(tcs, f) ==
    LET old == IF f.index \in DOMAIN tcs THEN tcs[f.index] ELSE NoFragment
        new == [name |-> IF "name" \in DOMAIN f THEN f.name ELSE old.name,
                arguments |-> IF "arguments" \in DOMAIN f
                              THEN old.arguments \o f.arguments
                              ELSE old.arguments]
    IN  [k \in (DOMAIN tcs) \cup {f.index} |-> IF k = f.index THEN new ELSE tcs[k]]

RECURSIVE MergeFragments(_, _)
MergeFragments(tcs, fs) ==
    IF fs = <<>> THEN tcs
    ELSE MergeFragments(MergeFragment(tcs, Head(fs)), Tail(fs))

\* merge(state, chunk) -> state'
merge(state, chunk) ==
    [text |-> IF "content" \in DOMAIN chunk THEN state.text \o chunk.content
              ELSE state.text,
     tool_calls |-> IF "tool_calls" \in DOMAIN chunk
                    THEN MergeFragments(state.tool_calls, chunk.tool_calls)
                    ELSE state.tool_calls,
     finish_reason |-> IF "finish_reason" \in DOMAIN chunk THEN chunk.finish_reason
                       ELSE state.finish_reason,
     usage |-> IF "usage" \in DOMAIN chunk THEN chunk.usage ELSE state.usage]

\* --------------------------------------------------------- ResponseDecoder
RECURSIVE SortedIndexes(_)
SortedIndexes(S) ==
    IF S = {} THEN <<>>
    ELSE LET m == CHOOSE x \in S : \A y \in S : x <= y
         IN  <<m>> \o SortedIndexes(S \ {m})

\* The domain response built from a stream state: the tool calls in index
\* order, each with its accumulated argument string.
Snapshot(state) ==
    LET idx == SortedIndexes(DOMAIN state.tool_calls)
    IN  [role |-> "assistant",
         text |-> state.text,
         tool_calls |-> [k \in 1..Len(idx) |->
                            [name |-> state.tool_calls[idx[k]].name,
                             arguments |-> state.tool_calls[idx[k]].arguments]],
         stop_reason |-> state.finish_reason,
         usage |-> state.usage]

\* process_streaming_chunk(chunk_data, accumulated_state): merges the chunk
\* into the state (in place, in the source) and returns the response.
process_streaming_chunk(chunk_data, state) ==
    LET merged == merge(state, chunk_data)
    IN  [state |-> merged, response |-> Snapshot(merged)]

\* ------------------------------------------------- the provider's answers
\* What a sequence of chunks says as a whole, read off the sequence (not
\* folded chunk by chunk): the non-streaming body that the
\* chat-completions endpoint gives for the same generation.
RECURSIVE AllText(_)
AllText(cs) ==
    IF cs = <<>> THEN <<>>
    ELSE (IF "content" \in DOMAIN Head(cs) THEN Head(cs).content ELSE <<>>)
         \o AllText(Tail(cs))

RECURSIVE AllFragments(_)
AllFragments(cs) ==
    IF cs = <<>> THEN <<>>
    ELSE (IF "tool_calls" \in DOMAIN Head(cs) THEN Head(cs).tool_calls ELSE <<>>)
         \o AllFragments(Tail(cs))

FragmentsAt(cs, k) ==
    LET At(f) == f.index = k IN SelectSeq(AllFragments(cs), At)

RECURSIVE AllArguments(_)
AllArguments(fs) ==
    IF fs = <<>> THEN <<>>
    ELSE (IF "arguments" \in DOMAIN Head(fs) THEN Head(fs).arguments ELSE <<>>)
         \o AllArguments(Tail(fs))

LastName(fs) ==
    LET Named(f) == "name" \in DOMAIN f
        named == SelectSeq(fs, Named)
    IN  IF named = <<>> THEN "" ELSE named[Len(named)].name

LastFinish(cs) ==
    LET Has(c) == "finish_reason" \in DOMAIN c
        with == SelectSeq(cs, Has)
    IN  IF with = <<>> THEN "none" ELSE with[Len(with)].finish_reason

LastUsage(cs) ==
    LET Has(c) == "usage" \in DOMAIN c
        with == SelectSeq(cs, Has)
    IN  IF with = <<>> THEN ZeroUsage ELSE with[Len(with)].usage

Indexes(cs) == {AllFragments(cs)[n].index : n \in 1..Len(AllFragments(cs))}

\* {choices: [{message: {role, content, tool_calls}, finish_reason}], usage}
ProviderBody(cs) ==
    LET idx == SortedIndexes(Indexes(cs))
    IN  [choices |-> <<
            [message |->
                [role |-> "assistant",
                 content |-> AllText(cs),
                 tool_calls |-> [k \in 1..Len(idx) |->
                     [function |->
                         [name |-> LastName(FragmentsAt(cs, idx[k])),
                          arguments |-> AllArguments(FragmentsAt(cs, idx[k]))]]]],
             finish_reason |-> LastFinish(cs)] >>,
         usage |-> LastUsage(cs)]

BoundedSeq(S, n) == UNION {[1..k -> S] : k \in 0..n}

\* The generations a blocking call may be answered with, and their bodies.
AnswerSeqs == BoundedSeq(ChunkSet, MaxAnswer)
AnswerBodies == {ProviderBody(cs) : cs \in AnswerSeqs}

\* to_llm_response(litellm_response): the domain response of a finalized
\* non-streaming body.
to_llm_response(body) ==
    LET choice == body.choices[1]
        calls == choice.message.tool_calls
    IN  [role |-> "assistant",
         text |-> choice.message.content,
         tool_calls |-> [k \in 1..Len(calls) |->
                            [name |-> calls[k].function.name,
                             arguments |-> calls[k].function.arguments]],
         stop_reason |-> choice.finish_reason,
         usage |-> IF "usage" \in DOMAIN body THEN body.usage ELSE ZeroUsage]

\* Bodies the embeddings endpoint may answer with.
EmbedBodies ==
    { [data |-> <<>>],
      [data |-> << [embedding |-> <<1, 2>>] >>],
      [data |-> << [embedding |-> <<3>>], [embedding |-> <<1, 2>>] >>],
      [data |-> << [object |-> "embedding"] >>],
      [object |-> "list"] }

\* --------------------------------------------------------------- requests
\* The chat requests a caller may pass: a complete one, one without a model
\* id, one without messages.
ChatRequests ==
    { [model_id |-> "m", messages |-> << [role |-> "user", content |-> "hi"] >>],
      [messages |-> << [role |-> "user", content |-> "hi"] >>],
      [model_id |-> "m", messages |-> <<>>] }

\* The embedding requests a caller may pass.
EmbedRequests ==
    { [model_id |-> "e", text |-> "foo"], [model_id |-> "e2", text |-> "bar"] }

encoding_error == [kind |-> "EncodingError"]

\* LiteLLMRequestConverter.convert_llm_request: the wire payload, or the
\* error it raises when the model id or the messages are missing.
convert_llm_request(request) ==
    IF \/ "model_id" \notin DOMAIN request
       \/ "messages" \notin DOMAIN request
       \/ request.messages = <<>>
    THEN [error |-> encoding_error]
    ELSE [model |-> request.model_id, messages |-> request.messages]

\* payload["stream"] = True
with_stream(payload) == [stream |-> TRUE] @@ payload

CHAT_COMPLETIONS == "/v1/chat/completions"
EMBEDDINGS == "/v1/embeddings"

\* ---------------------------------------------------------- configuration
MaxQueries == 2         \* calls made on one component
MaxResults == 2         \* results of one retrieve

KNOWLEDGE_BASE_ID == "KNOWLEDGE_BASE_ID"
LITELLM_API_ENDPOINT == "LITELLM_API_ENDPOINT"
LITELLM_KEY == "LITELLM_KEY"
SettingNames == {KNOWLEDGE_BASE_ID, LITELLM_API_ENDPOINT, LITELLM_KEY}

\* A variable the environment does not have, and Python's None.
Unset == "<unset>"
None == "<None>"

\* The environments a process may be started in.
Environs ==
    { [n \in SettingNames |-> IF n = KNOWLEDGE_BASE_ID THEN kb
                               ELSE IF n = LITELLM_API_ENDPOINT THEN ep ELSE key] :
        kb \in {Unset, "kb-1"}, ep \in {Unset, "http://gateway:4000"},
        key \in {Unset, "sk-env"} }

\* os.getenv('LITELLM_API_ENDPOINT', 'http://localhost:4000')
DEFAULT_ENDPOINT == "http://localhost:4000"

Components ==
    {"kb_tool", "BedrockKnowledgeBaseMCPServer", "StrandsJiraAgent",
     "LiteLLMGatewayClient"}

\* A component nobody has imported or constructed yet, one whose
\* construction raised, and one that holds the given setting.
NotConstructed == [state |-> "none", setting |-> None, calls |-> <<>>]
Failed(error) == [state |-> "failed", setting |-> None, calls |-> <<>>, error |-> error]
Constructed(value) == [state |-> "constructed", setting |-> value, calls |-> <<>>]

\* Python's `a or b`.
py_or(a, b) == IF a \in {None, ""} THEN b ELSE a

\* A LiteLLMGatewayClient: self.api_endpoint and self.api_key.
GatewayClient(api_endpoint, api_key) ==
    [api_key |-> api_key] @@ Constructed(api_endpoint)

\* str() inside an f-string.
str(value) == IF value = None THEN "None" ELSE value

\* _get_headers
get_headers(api_key) ==
    [ContentType |-> "application/json",
     Authorization |-> <<"Bearer ", str(api_key)>>]

\* ------------------------------------------------------ strands agent server
MaxRequests == 3        \* requests the server handles
MaxEvents == 3          \* events of one agent stream

SessionIds == {"s1", "s2"}

\* request.message: a text, an empty text, an empty text before a text.
UserMessages ==
    { [role |-> "user", content |-> <<"q1">>],
      [role |-> "user", content |-> <<"">>],
      [role |-> "user", content |-> <<"", "q2">>] }

AgenticRequests == [session_id : SessionIds \cup {None}, message : UserMessages]

\* cls._agent = None
NoAgent == [none |-> TRUE]

\* A session the memory gateway has no context for.
Missing == [missing |-> TRUE]

\* SessionContext(session_id=...), and SessionContext.add_message
SessionContext(session_id) == [session_id |-> session_id, messages |-> <<>>]

add_message(context, message) ==
    [context EXCEPT !.messages = Append(@, message)]

\* What the memory gateway holds when the server starts: nothing for one
\* session, an earlier conversation for the other.
StoredAtStart ==
    [id \in SessionIds \cup {None} |->
        IF id = "s2"
        THEN add_message(SessionContext("s2"), [role |-> "user", content |-> <<"q0">>])
        ELSE Missing]

\* The events agent.stream_async delivers, and how the stream ends: by
\* exhaustion or by raising.
AgentEvents ==
    { [kind |-> "data", data |-> "t1"], [kind |-> "data", data |-> "t2"],
      [kind |-> "tool", data |-> "u1"], [kind |-> "init", data |-> ""] }

AgentStreams ==
    [events : UNION {[1..n -> AgentEvents] : n \in 0..MaxEvents},
     end : {"stop", "<raise>"}]

\* StrandsStreamingConverter(session_id).convert_chunks_to_events(event):
\* none, one or several platform events for one agent event.
convert_chunks_to_events(session_id, event) ==
    IF event.kind = "data"
    THEN <<[type |-> "TextDeltaEvent", session_id |-> session_id, text |-> event.data]>>
    ELSE IF event.kind = "tool"
    THEN <<[type |-> "ToolCallEvent", session_id |-> session_id, text |-> event.data],
           [type |-> "ToolResultEvent", session_id |-> session_id, text |-> event.data]>>
    ELSE <<>>

ErrorEvent(session_id, error) ==
    [type |-> "ErrorEvent", session_id |-> session_id, error |-> error]

\* No invoke_stream generator exists.
NoStream == [none |-> TRUE]

\* What `with self.mcp_client` and list_tools_sync() do for the Jira agent;
\* the RAG agent has its tools from construction.
McpSetups == {"ok", "start error", "list_tools error"}

\* ------------------------------------------------------------------ state
VARIABLES
    op,                 \* the operation each slot runs
    pc,                 \* where the call or its generator stands
    status,             \* response.status_code (0: no response)
    received,           \* the lines iter_lines / aiter_lines has delivered
    accumulated_state,  \* the local accumulated_state of the generator
    yielded,            \* the responses the caller has been given
    raised,             \* the exceptions the call has raised to the caller
    result,             \* what a blocking call returned
    conn,               \* the HTTP connection of the response
    client,             \* the httpx.AsyncClient of the async generator
    requests,           \* the HTTP requests the call has issued, in order
    litellm_response,   \* response.json() of a blocking call
    environ,            \* os.environ: the external settings
    component,          \* the configured components: construction and calls
    agent,              \* StrandsAgentController._agent
    built,              \* the constructions of StrandsAgentWrapper, in order
    memory,             \* the session contexts the memory gateway stores
    log,                \* the requests the strands agent server has served
    generator           \* the invoke_stream generator of an agent

vars == <<op, pc, status, received, accumulated_state, yielded, raised, result,
          conn, client, requests, litellm_response, environ, component,
          agent, built, memory, log, generator>>

\* The variables of the gateway calls, and those of the configuration.
gateway == <<op, pc, status, received, accumulated_state, yielded, raised, result,
             conn, client, requests, litellm_response>>
cfg == <<environ, component>>
agents == <<agent, built, memory, log, generator>>

\* requests.post(url, headers, json, timeout, stream) / client.stream("POST", ...)
http_post(path, payload, stream) ==
    [method |-> "POST", url |-> path,
     headers |-> get_headers(component["LiteLLMGatewayClient"].api_key),
     json |-> payload, stream |-> stream]

Terminal == {"done", "raised", "closed", "returned"}

RECURSIVE SumLen(_, _)
SumLen(f, S) ==
    IF S = {} THEN 0
    ELSE LET i == CHOOSE x \in S : TRUE IN Len(f[i]) + SumLen(f, S \ {i})

\* Lines held across all slots: the budget of the model.
TotalRead == SumLen(received, Invs)

\* No call is running.
NoCall ==
    /\ op = [i \in Invs |-> "none"]
    /\ pc = [i \in Invs |-> "idle"]
    /\ status = [i \in Invs |-> 0]
    /\ received = [i \in Invs |-> <<>>]
    /\ accumulated_state = [i \in Invs |-> Unbound]
    /\ yielded = [i \in Invs |-> <<>>]
    /\ raised = [i \in Invs |-> <<>>]
    /\ result = [i \in Invs |-> <<>>]
    /\ conn = [i \in Invs |-> "none"]
    /\ client = [i \in Invs |-> "none"]
    /\ requests = [i \in Invs |-> <<>>]
    /\ litellm_response = [i \in Invs |-> Null]

\* The strands agent server is imported and has served nothing.
NoRequest ==
    /\ agent = NoAgent
    /\ built = <<>>
    /\ memory = StoredAtStart
    /\ log = <<>>
    /\ generator = NoStream

\* get_client(): a LiteLLMGatewayClient constructed without any setting in
\* the environment, and no call made yet.
Init ==
    /\ NoCall
    /\ NoRequest
    /\ environ = [n \in SettingNames |-> Unset]
    /\ component = [c \in Components |->
                       IF c = "LiteLLMGatewayClient"
                       THEN GatewayClient(DEFAULT_ENDPOINT, None)
                       ELSE NotConstructed]

\* A free slot takes a new call: the locals of the new frame are not bound
\* yet.
NewCall(i, operation, at) ==
    /\ pc[i] = "idle"
    /\ op' = [op EXCEPT ![i] = operation]
    /\ pc' = [pc EXCEPT ![i] = at]
    /\ status' = [status EXCEPT ![i] = 0]
    /\ received' = [received EXCEPT ![i] = <<>>]
    /\ yielded' = [yielded EXCEPT ![i] = <<>>]
    /\ raised' = [raised EXCEPT ![i] = <<>>]
    /\ result' = [result EXCEPT ![i] = <<>>]
    /\ conn' = [conn EXCEPT ![i] = "none"]
    /\ client' = [client EXCEPT ![i] = "none"]
    /\ requests' = [requests EXCEPT ![i] = <<>>]
    /\ accumulated_state' = [accumulated_state EXCEPT ![i] = Unbound]
    /\ litellm_response' = [litellm_response EXCEPT ![i] = Null]
    /\ UNCHANGED <<cfg, agents>>

\* Variant: the comparison inverted.
is_error_inverted(status_code) == status_code = HTTP_OK
\* Variant: any 2xx accepted.
is_error_non_2xx(status_code) == status_code \notin 200..299
\* if response.status_code != 200 (the same test in all four operations)
is_error(status_code) == status_code # HTTP_OK

\* Exception(f"LiteLLM API error: {response.status_code} - {response.text}")
api_error(status_code, text) ==
    [kind |-> "Exception",
     message |-> <<"LiteLLM API error: ", status_code, " - ", text>>]

\* What requests / httpx raise when the connection fails or times out.
transport_error == [kind |-> "TransportError"]

\* ------------------------------------------------- chat_invoke_stream (sync)
\* Variant: an ordinary function that posts at once and returns an
\* iterator over the lines.
chat_invoke_stream_eager(i) ==
    /\ pc[i] = "idle"
    /\ op' = [op EXCEPT ![i] = "chat_invoke_stream"]
    /\ pc' = [pc EXCEPT ![i] = "created"]
    /\ requests' = [requests EXCEPT ![i] =
           <<http_post(CHAT_COMPLETIONS,
                       with_stream(convert_llm_request(
                           CHOOSE request \in ChatRequests :
                               "error" \notin DOMAIN convert_llm_request(request))),
                       TRUE)>>]
    /\ UNCHANGED <<cfg, agents, status, received, accumulated_state, yielded, raised, result,
                   conn, client, litellm_response>>
\* Calling the generator function runs none of its body.
chat_invoke_stream(i) ==
    /\ NewCall(i, "chat_invoke_stream", "created")


\* First next(): the request is converted and posted, the status checked.
\* An error status reads response.text (the whole body, which hands the
\* connection back) and raises.
chat_invoke_stream_post(i) ==
    /\ op[i] = "chat_invoke_stream"
    /\ pc[i] = "created"
    /\ \E request \in ChatRequests :
         LET payload == convert_llm_request(request)
         IN  \/ /\ "error" \in DOMAIN payload
                /\ pc' = [pc EXCEPT ![i] = "raised"]
                /\ raised' = [raised EXCEPT ![i] = Append(@, payload.error)]
                /\ UNCHANGED <<requests, status, conn, accumulated_state>>
             \/ /\ "error" \notin DOMAIN payload
                /\ requests' = [requests EXCEPT ![i] =
                       Append(@, http_post(CHAT_COMPLETIONS, with_stream(payload), TRUE))]
                /\ \/ /\ pc' = [pc EXCEPT ![i] = "raised"]
                      /\ raised' = [raised EXCEPT ![i] = Append(@, transport_error)]
                      /\ UNCHANGED <<status, conn, accumulated_state>>
                   \/ \E s \in Statuses, b \in ErrorBodies :
                        /\ status' = [status EXCEPT ![i] = s]
                        /\ IF is_error(s)
                           THEN /\ conn' = [conn EXCEPT ![i] = "released"]
                                /\ raised' = [raised EXCEPT ![i] =
                                                 Append(@, api_error(s, b))]
                                /\ pc' = [pc EXCEPT ![i] = "raised"]
                                /\ UNCHANGED accumulated_state
                           ELSE /\ conn' = [conn EXCEPT ![i] = "open"]
                                /\ accumulated_state' =
                                       [accumulated_state EXCEPT ![i] = EmptyState]
                                /\ pc' = [pc EXCEPT ![i] = "running"]
                                /\ UNCHANGED raised
    /\ UNCHANGED <<cfg, agents, op, received, yielded, result, client, litellm_response>>

\* Variant: accumulated_state bound anew in every iteration.
stream_loop_body_reset(line, state) ==
    IF line.kind = "empty" THEN [state |-> state, out |-> <<>>]
    ELSE LET chunk_data == parse_streaming_line(line)
         IN  IF chunk_data = Null \/ "done" \in DOMAIN chunk_data
             THEN [state |-> state, out |-> <<>>]
             ELSE LET r == process_streaming_chunk(chunk_data, EmptyState)
                  IN  [state |-> r.state, out |-> <<r.response>>]
\* Variant: the converter is handed a copy, so no merge is kept.
stream_loop_body_copy(line, state) ==
    IF line.kind = "empty" THEN [state |-> state, out |-> <<>>]
    ELSE LET chunk_data == parse_streaming_line(line)
         IN  IF chunk_data = Null \/ "done" \in DOMAIN chunk_data
             THEN [state |-> state, out |-> <<>>]
             ELSE LET r == process_streaming_chunk(chunk_data, state)
                  IN  [state |-> state, out |-> <<r.response>>]
\* Variant: a yield only for a chunk that carries text.
stream_loop_body_content_only(line, state) ==
    IF line.kind = "empty" THEN [state |-> state, out |-> <<>>]
    ELSE LET chunk_data == parse_streaming_line(line)
         IN  IF chunk_data = Null \/ "done" \in DOMAIN chunk_data
             THEN [state |-> state, out |-> <<>>]
             ELSE LET r == process_streaming_chunk(chunk_data, state)
                  IN  [state |-> r.state,
                       out |-> IF "content" \in DOMAIN chunk_data
                               THEN <<r.response>> ELSE <<>>]
\* Variant: an empty line taken as the end of an event, which yields the
\* state so far.
stream_loop_body_blank_flush(line, state) ==
    IF line.kind = "empty" THEN [state |-> state, out |-> <<Snapshot(state)>>]
    ELSE LET chunk_data == parse_streaming_line(line)
         IN  IF chunk_data = Null \/ "done" \in DOMAIN chunk_data
             THEN [state |-> state, out |-> <<>>]
             ELSE LET r == process_streaming_chunk(chunk_data, state)
                  IN  [state |-> r.state, out |-> <<r.response>>]
\* Variant: chunks that arrive after a finish reason are skipped.
stream_loop_body_finished(line, state) ==
    IF line.kind = "empty" THEN [state |-> state, out |-> <<>>]
    ELSE LET chunk_data == parse_streaming_line(line)
         IN  IF \/ chunk_data = Null
                \/ "done" \in DOMAIN chunk_data
                \/ state.finish_reason # "none"
             THEN [state |-> state, out |-> <<>>]
             ELSE LET r == process_streaming_chunk(chunk_data, state)
                  IN  [state |-> r.state, out |-> <<r.response>>]
\* The body of `for line in response.iter_lines(...)` for one line: the new
\* state and the responses yielded (none or one).
stream_loop_body(line, state) ==
    IF line.kind = "empty" THEN [state |-> state, out |-> <<>>]
    ELSE LET chunk_data == parse_streaming_line(line)
         IN  IF chunk_data = Null \/ "done" \in DOMAIN chunk_data
             THEN [state |-> state, out |-> <<>>]
             ELSE LET r == process_streaming_chunk(chunk_data, state)
                  IN  [state |-> r.state, out |-> <<r.response>>]

\* Variant: one accumulated_state kept on the client for all its generators.
chat_invoke_stream_iter_shared(i) ==
    /\ op[i] = "chat_invoke_stream"
    /\ pc[i] \in {"running", "yielded"}
    /\ TotalRead < MaxLines
    /\ \E line \in Lines :
         LET r == stream_loop_body(line, accumulated_state[i])
         IN  /\ received' = [received EXCEPT ![i] = Append(@, line)]
             /\ accumulated_state' =
                    [j \in Invs |-> IF j = i \/ accumulated_state[j] # Unbound
                                    THEN r.state ELSE accumulated_state[j]]
             /\ yielded' = [yielded EXCEPT ![i] = @ \o r.out]
             /\ pc' = [pc EXCEPT ![i] = IF r.out = <<>> THEN "running" ELSE "yielded"]
    /\ UNCHANGED <<cfg, agents, op, status, raised, result, conn, client, requests, litellm_response>>
\* Variant: a line that does not parse raises out of the generator.
chat_invoke_stream_iter_strict(i) ==
    /\ op[i] = "chat_invoke_stream"
    /\ pc[i] \in {"running", "yielded"}
    /\ TotalRead < MaxLines
    /\ \E line \in Lines :
         LET r == stream_loop_body(line, accumulated_state[i])
             bad == line.kind # "empty" /\ parse_streaming_line(line) = Null
         IN  /\ received' = [received EXCEPT ![i] = Append(@, line)]
             /\ accumulated_state' = [accumulated_state EXCEPT ![i] = r.state]
             /\ yielded' = [yielded EXCEPT ![i] = @ \o r.out]
             /\ raised' = [raised EXCEPT ![i] =
                    IF bad THEN Append(@, [kind |-> "JSONDecodeError"]) ELSE @]
             /\ pc' = [pc EXCEPT ![i] = IF bad THEN "raised"
                                        ELSE IF r.out = <<>> THEN "running"
                                        ELSE "yielded"]
    /\ UNCHANGED <<cfg, agents, op, status, result, conn, client, requests, litellm_response>>
\* One line arrives and goes through the loop body.  From "yielded" this is
\* the caller's next(); a yield suspends the generator again.
chat_invoke_stream_iter(i) ==
    /\ op[i] = "chat_invoke_stream"
    /\ pc[i] \in {"running", "yielded"}
    /\ TotalRead < MaxLines
    /\ \E line \in Lines :
         LET r == stream_loop_body(line, accumulated_state[i])
         IN  /\ received' = [received EXCEPT ![i] = Append(@, line)]
             /\ accumulated_state' = [accumulated_state EXCEPT ![i] = r.state]
             /\ yielded' = [yielded EXCEPT ![i] = @ \o r.out]
             /\ pc' = [pc EXCEPT ![i] = IF r.out = <<>> THEN "running" ELSE "yielded"]
    /\ UNCHANGED <<cfg, agents, op, status, raised, result, conn, client, requests, litellm_response>>

\* Variant: one more response yielded after the loop, for the final state.
chat_invoke_stream_end_final(i) ==
    /\ op[i] = "chat_invoke_stream"
    /\ pc[i] \in {"running", "yielded"}
    /\ pc' = [pc EXCEPT ![i] = "done"]
    /\ yielded' = [yielded EXCEPT ![i] = Append(@, Snapshot(accumulated_state[i]))]
    /\ conn' = [conn EXCEPT ![i] = "released"]
    /\ UNCHANGED <<cfg, agents, op, status, received, accumulated_state, raised, result,
                   client, requests, litellm_response>>
\* iter_lines is exhausted: the body was read to its end, which hands the
\* connection back, and the generator returns.
chat_invoke_stream_end(i) ==
    /\ op[i] = "chat_invoke_stream"
    /\ pc[i] \in {"running", "yielded"}
    /\ pc' = [pc EXCEPT ![i] = "done"]
    /\ conn' = [conn EXCEPT ![i] = "released"]
    /\ UNCHANGED <<cfg, agents, op, status, received, accumulated_state, yielded, raised, result,
                   client, requests, litellm_response>>

\* Variant: the failed read caught and the state so far yielded once more.
chat_invoke_stream_error_flush(i) ==
    /\ op[i] = "chat_invoke_stream"
    /\ pc[i] \in {"running", "yielded"}
    /\ pc' = [pc EXCEPT ![i] = "raised"]
    /\ yielded' = [yielded EXCEPT ![i] = Append(@, Snapshot(accumulated_state[i]))]
    /\ raised' = [raised EXCEPT ![i] = Append(@, transport_error)]
    /\ conn' = [conn EXCEPT ![i] = "released"]
    /\ UNCHANGED <<cfg, agents, op, status, received, accumulated_state, result,
                   client, requests, litellm_response>>
\* Variant: the failed read caught inside the loop, which goes on reading.
chat_invoke_stream_error_swallowed(i) ==
    /\ op[i] = "chat_invoke_stream"
    /\ pc[i] \in {"running", "yielded"}
    /\ pc' = [pc EXCEPT ![i] = "running"]
    /\ raised' = [raised EXCEPT ![i] = Append(@, transport_error)]
    /\ conn' = [conn EXCEPT ![i] = "released"]
    /\ UNCHANGED <<cfg, agents, op, status, received, accumulated_state, yielded, result,
                   client, requests, litellm_response>>
\* The read of the next line fails: the transport drops the connection and
\* the exception leaves the generator.
chat_invoke_stream_error(i) ==
    /\ op[i] = "chat_invoke_stream"
    /\ pc[i] \in {"running", "yielded"}
    /\ pc' = [pc EXCEPT ![i] = "raised"]
    /\ raised' = [raised EXCEPT ![i] = Append(@, transport_error)]
    /\ conn' = [conn EXCEPT ![i] = "released"]
    /\ UNCHANGED <<cfg, agents, op, status, received, accumulated_state, yielded, result,
                   client, requests, litellm_response>>

\* The caller stops early: GeneratorExit at the yield (or before the first
\* next()).  No with block, try/finally or response.close() surrounds the
\* loop, so nothing of the generator runs.
chat_invoke_stream_close(i) ==
    /\ op[i] = "chat_invoke_stream"
    /\ pc[i] \in {"created", "yielded"}
    /\ pc' = [pc EXCEPT ![i] = "closed"]
    /\ UNCHANGED <<cfg, agents, op, status, received, accumulated_state, yielded, raised, result,
                   conn, client, requests, litellm_response>>

SyncStream(i) ==
    \/ chat_invoke_stream(i)
    \/ chat_invoke_stream_post(i)
    \/ chat_invoke_stream_iter(i)
    \/ chat_invoke_stream_end(i)
    \/ chat_invoke_stream_error(i)
    \/ chat_invoke_stream_close(i)

\* ------------------------------------------ chat_invoke_stream_async (async)
\* Calling the async generator function runs none of its body.
chat_invoke_stream_async(i) ==
    /\ NewCall(i, "chat_invoke_stream_async", "created")

\* First __anext__(): the client is opened and the request streamed, both
\* under `async with`; the status is checked.  Any exception leaves through
\* both __aexit__.
chat_invoke_stream_async_post(i) ==
    /\ op[i] = "chat_invoke_stream_async"
    /\ pc[i] = "created"
    /\ \E request \in ChatRequests :
         LET payload == convert_llm_request(request)
         IN  \/ /\ "error" \in DOMAIN payload
                /\ pc' = [pc EXCEPT ![i] = "raised"]
                /\ raised' = [raised EXCEPT ![i] = Append(@, payload.error)]
                /\ UNCHANGED <<requests, status, conn, client, accumulated_state>>
             \/ /\ "error" \notin DOMAIN payload
                /\ requests' = [requests EXCEPT ![i] =
                       Append(@, http_post(CHAT_COMPLETIONS, with_stream(payload), TRUE))]
                /\ \/ /\ pc' = [pc EXCEPT ![i] = "raised"]
                      /\ raised' = [raised EXCEPT ![i] = Append(@, transport_error)]
                      /\ client' = [client EXCEPT ![i] = "closed"]
                      /\ UNCHANGED <<status, conn, accumulated_state>>
                   \/ \E s \in Statuses, b \in ErrorBodies :
                        /\ status' = [status EXCEPT ![i] = s]
                        /\ IF is_error(s)
                           THEN /\ conn' = [conn EXCEPT ![i] = "released"]
                                /\ client' = [client EXCEPT ![i] = "closed"]
                                /\ raised' = [raised EXCEPT ![i] =
                                                 Append(@, api_error(s, b))]
                                /\ pc' = [pc EXCEPT ![i] = "raised"]
                                /\ UNCHANGED accumulated_state
                           ELSE /\ conn' = [conn EXCEPT ![i] = "open"]
                                /\ client' = [client EXCEPT ![i] = "open"]
                                /\ accumulated_state' =
                                       [accumulated_state EXCEPT ![i] = EmptyState]
                                /\ pc' = [pc EXCEPT ![i] = "running"]
                                /\ UNCHANGED raised
    /\ UNCHANGED <<cfg, agents, op, received, yielded, result, litellm_response>>

\* The body of `async for line in response.aiter_lines()` for one line.
stream_loop_body_async(line, state) ==
    IF line.kind = "empty" THEN [state |-> state, out |-> <<>>]
    ELSE LET chunk_data == parse_streaming_line(line)
         IN  IF chunk_data = Null \/ "done" \in DOMAIN chunk_data
             THEN [state |-> state, out |-> <<>>]
             ELSE LET r == process_streaming_chunk(chunk_data, state)
                  IN  [state |-> r.state, out |-> <<r.response>>]

chat_invoke_stream_async_iter(i) ==
    /\ op[i] = "chat_invoke_stream_async"
    /\ pc[i] \in {"running", "yielded"}
    /\ TotalRead < MaxLines
    /\ \E line \in Lines :
         LET r == stream_loop_body_async(line, accumulated_state[i])
         IN  /\ received' = [received EXCEPT ![i] = Append(@, line)]
             /\ accumulated_state' = [accumulated_state EXCEPT ![i] = r.state]
             /\ yielded' = [yielded EXCEPT ![i] = @ \o r.out]
             /\ pc' = [pc EXCEPT ![i] = IF r.out = <<>> THEN "running" ELSE "yielded"]
    /\ UNCHANGED <<cfg, agents, op, status, raised, result, conn, client, requests, litellm_response>>

\* Variant: client and response opened without `async with`.
async_with_exit_leak(i) ==
    /\ UNCHANGED <<conn, client>>
\* Leaving the two `async with` blocks, however the generator leaves them.
async_with_exit(i) ==
    /\ conn' = [conn EXCEPT ![i] = IF @ = "open" THEN "released" ELSE @]
    /\ client' = [client EXCEPT ![i] = IF @ = "open" THEN "closed" ELSE @]

\* aiter_lines is exhausted: the generator falls out of both blocks.
chat_invoke_stream_async_end(i) ==
    /\ op[i] = "chat_invoke_stream_async"
    /\ pc[i] \in {"running", "yielded"}
    /\ pc' = [pc EXCEPT ![i] = "done"]
    /\ async_with_exit(i)
    /\ UNCHANGED <<cfg, agents, op, status, received, accumulated_state, yielded, raised, result,
                   requests, litellm_response>>

\* The read of the next line fails.
chat_invoke_stream_async_error(i) ==
    /\ op[i] = "chat_invoke_stream_async"
    /\ pc[i] \in {"running", "yielded"}
    /\ pc' = [pc EXCEPT ![i] = "raised"]
    /\ raised' = [raised EXCEPT ![i] = Append(@, transport_error)]
    /\ async_with_exit(i)
    /\ UNCHANGED <<cfg, agents, op, status, received, accumulated_state, yielded, result,
                   requests, litellm_response>>

\* The caller stops early: aclose() throws GeneratorExit at the yield, which
\* unwinds through both `async with` blocks.
chat_invoke_stream_async_close(i) ==
    /\ op[i] = "chat_invoke_stream_async"
    /\ pc[i] \in {"created", "yielded"}
    /\ pc' = [pc EXCEPT ![i] = "closed"]
    /\ async_with_exit(i)
    /\ UNCHANGED <<cfg, agents, op, status, received, accumulated_state, yielded, raised, result,
                   requests, litellm_response>>

AsyncStream(i) ==
    \/ chat_invoke_stream_async(i)
    \/ chat_invoke_stream_async_post(i)
    \/ chat_invoke_stream_async_iter(i)
    \/ chat_invoke_stream_async_end(i)
    \/ chat_invoke_stream_async_error(i)
    \/ chat_invoke_stream_async_close(i)

\* ------------------------------------------------------- blocking calls
\* A blocking call runs from its first line to its return or raise in one
\* step: the slot ends with the given outcome.
Blocking(i, operation, at, reqs, s, errs, res, body) ==
    /\ pc[i] = "idle"
    /\ op' = [op EXCEPT ![i] = operation]
    /\ pc' = [pc EXCEPT ![i] = at]
    /\ status' = [status EXCEPT ![i] = s]
    /\ raised' = [raised EXCEPT ![i] = errs]
    /\ result' = [result EXCEPT ![i] = res]
    /\ litellm_response' = [litellm_response EXCEPT ![i] = body]
    /\ conn' = [conn EXCEPT ![i] = IF s = 0 THEN "none" ELSE "released"]
    /\ requests' = [requests EXCEPT ![i] = reqs]
    /\ received' = [received EXCEPT ![i] = <<>>]
    /\ yielded' = [yielded EXCEPT ![i] = <<>>]
    /\ client' = [client EXCEPT ![i] = "none"]
    /\ accumulated_state' = [accumulated_state EXCEPT ![i] = Unbound]
    /\ UNCHANGED <<cfg, agents>>

\* Variant: the request posted as it came, and converted afterwards.
chat_invoke_convert_late(i) ==
    \E request \in ChatRequests :
      LET payload == convert_llm_request(request)
          reqs == <<http_post(CHAT_COMPLETIONS, payload, FALSE)>>
      IN  \/ /\ "error" \in DOMAIN payload
             /\ Blocking(i, "chat_invoke", "raised",
                         <<http_post(CHAT_COMPLETIONS, request, FALSE)>>, 200,
                         <<payload.error>>, <<>>, Null)
          \/ /\ "error" \notin DOMAIN payload
             /\ \/ Blocking(i, "chat_invoke", "raised", reqs, 0,
                            <<transport_error>>, <<>>, Null)
                \/ \E s \in Statuses, b \in ErrorBodies :
                     /\ is_error(s)
                     /\ Blocking(i, "chat_invoke", "raised", reqs, s,
                                 <<api_error(s, b)>>, <<>>, Null)
                \/ \E s \in Statuses, body \in AnswerBodies :
                     /\ ~is_error(s)
                     /\ Blocking(i, "chat_invoke", "returned", reqs, s, <<>>,
                                 <<to_llm_response(body)>>, body)
\* Variant: response.json() returned as it is, unconverted.
chat_invoke_raw(i) ==
    \E request \in ChatRequests :
      LET payload == convert_llm_request(request)
          reqs == <<http_post(CHAT_COMPLETIONS, payload, FALSE)>>
      IN  \/ /\ "error" \in DOMAIN payload
             /\ Blocking(i, "chat_invoke", "raised", <<>>, 0, <<payload.error>>,
                         <<>>, Null)
          \/ /\ "error" \notin DOMAIN payload
             /\ \/ Blocking(i, "chat_invoke", "raised", reqs, 0,
                            <<transport_error>>, <<>>, Null)
                \/ \E s \in Statuses, b \in ErrorBodies :
                     /\ is_error(s)
                     /\ Blocking(i, "chat_invoke", "raised", reqs, s,
                                 <<api_error(s, b)>>, <<>>, Null)
                \/ \E s \in Statuses, body \in AnswerBodies :
                     /\ ~is_error(s)
                     /\ Blocking(i, "chat_invoke", "returned", reqs, s, <<>>,
                                 <<body>>, body)
\* chat_invoke: one POST, the status check, response.json(), the conversion.
chat_invoke(i) ==
    \E request \in ChatRequests :
      LET payload == convert_llm_request(request)
          reqs == <<http_post(CHAT_COMPLETIONS, payload, FALSE)>>
      IN  \/ /\ "error" \in DOMAIN payload
             /\ Blocking(i, "chat_invoke", "raised", <<>>, 0, <<payload.error>>,
                         <<>>, Null)
          \/ /\ "error" \notin DOMAIN payload
             /\ \/ Blocking(i, "chat_invoke", "raised", reqs, 0,
                            <<transport_error>>, <<>>, Null)
                \/ \E s \in Statuses, b \in ErrorBodies :
                     /\ is_error(s)
                     /\ Blocking(i, "chat_invoke", "raised", reqs, s,
                                 <<api_error(s, b)>>, <<>>, Null)
                \/ \E s \in Statuses, body \in AnswerBodies :
                     /\ ~is_error(s)
                     /\ Blocking(i, "chat_invoke", "returned", reqs, s, <<>>,
                                 <<to_llm_response(body)>>, body)

\* Variant: the embedding of the last element of data.
extract_embedding_last(body) ==
    IF "data" \in DOMAIN body /\ body.data # <<>>
    THEN IF "embedding" \in DOMAIN body.data[Len(body.data)]
         THEN body.data[Len(body.data)].embedding ELSE <<>>
    ELSE <<>>
\* embedding = data[0].get("embedding", []) when "data" is there and not empty
extract_embedding(body) ==
    IF "data" \in DOMAIN body /\ body.data # <<>>
    THEN IF "embedding" \in DOMAIN body.data[1] THEN body.data[1].embedding ELSE <<>>
    ELSE <<>>

\* Variant: a failed request is sent a second time before the failure is
\* raised.
embed_invoke_retry(i) ==
    \E request \in EmbedRequests :
      LET payload == [model |-> request.model_id, input |-> request.text]
          reqs == <<http_post(EMBEDDINGS, payload, FALSE)>>
      IN  \/ Blocking(i, "embed_invoke", "raised", reqs \o reqs, 0,
                      <<transport_error>>, <<>>, Null)
          \/ \E s \in Statuses, b \in ErrorBodies :
               /\ is_error(s)
               /\ Blocking(i, "embed_invoke", "raised", reqs \o reqs, s,
                           <<api_error(s, b)>>, <<>>, Null)
          \/ \E s \in Statuses, body \in EmbedBodies :
               /\ ~is_error(s)
               /\ Blocking(i, "embed_invoke", "returned", reqs, s, <<>>,
                           <<[embedding |-> extract_embedding(body)]>>, body)
\* embed_invoke: one POST, the status check, response.json(), the extraction.
embed_invoke(i) ==
    \E request \in EmbedRequests :
      LET payload == [model |-> request.model_id, input |-> request.text]
          reqs == <<http_post(EMBEDDINGS, payload, FALSE)>>
      IN  \/ Blocking(i, "embed_invoke", "raised", reqs, 0,
                      <<transport_error>>, <<>>, Null)
          \/ \E s \in Statuses, b \in ErrorBodies :
               /\ is_error(s)
               /\ Blocking(i, "embed_invoke", "raised", reqs, s,
                           <<api_error(s, b)>>, <<>>, Null)
          \/ \E s \in Statuses, body \in EmbedBodies :
               /\ ~is_error(s)
               /\ Blocking(i, "embed_invoke", "returned", reqs, s, <<>>,
                           <<[embedding |-> extract_embedding(body)]>>, body)

\* The caller is done with a finished call (its return value, its exception
\* or its exhausted or closed generator): the slot is free for the next one.
Forget(i) ==
    /\ pc[i] \in Terminal
    /\ op' = [op EXCEPT ![i] = "none"]
    /\ pc' = [pc EXCEPT ![i] = "idle"]
    /\ status' = [status EXCEPT ![i] = 0]
    /\ received' = [received EXCEPT ![i] = <<>>]
    /\ accumulated_state' = [accumulated_state EXCEPT ![i] = Unbound]
    /\ yielded' = [yielded EXCEPT ![i] = <<>>]
    /\ raised' = [raised EXCEPT ![i] = <<>>]
    /\ result' = [result EXCEPT ![i] = <<>>]
    /\ conn' = [conn EXCEPT ![i] = "none"]
    /\ client' = [client EXCEPT ![i] = "none"]
    /\ requests' = [requests EXCEPT ![i] = <<>>]
    /\ litellm_response' = [litellm_response EXCEPT ![i] = Null]
    /\ UNCHANGED <<cfg, agents>>

\* ------------------------------------------- construction of the components
\* os.getenv(name, default)
getenv(name, default) ==
    IF environ[name] = Unset THEN default ELSE environ[name]

\* Variant: the identifier is not looked at.
knowledge_base_id_missing_unchecked(value) == FALSE
\* if not knowledge_base_id
knowledge_base_id_missing(value) == value \in {None, ""}

value_error == "KNOWLEDGE_BASE_ID environment variable must be set"

\* One more call on a constructed component, with what it used and how it
\* ended.
CallWith(c, record) ==
    /\ component[c].state = "constructed"
    /\ Len(component[c].calls) < MaxQueries
    /\ component' = [component EXCEPT ![c].calls = Append(@, record)]
    /\ UNCHANGED <<environ, gateway, agents>>

Call(c, setting, outcome) ==
    CallWith(c, [setting |-> setting, outcome |-> outcome])

\* Importing kb_tool runs its module body: the identifier is read and
\* checked before the client is made.
kb_tool_import ==
    /\ component["kb_tool"].state = "none"
    /\ LET knowledge_base_id == getenv(KNOWLEDGE_BASE_ID, None)
       IN  component' = [component EXCEPT !["kb_tool"] =
               IF knowledge_base_id_missing(knowledge_base_id)
               THEN Failed(value_error) ELSE Constructed(knowledge_base_id)]
    /\ UNCHANGED <<environ, gateway, agents>>

\* What client.retrieve gives one call: an exception, or a response with
\* retrievalResults, each with a content text (possibly empty) and a score.
RetrievalResults ==
    { [text |-> "", score |-> 1], [text |-> "a", score |-> 2],
      [text |-> "b", score |-> 3] }

RetrieveOutcomes ==
    {[raised |-> TRUE, retrievalResults |-> <<>>]} \cup
    { [raised |-> FALSE, retrievalResults |-> rs] :
        rs \in UNION {[1..n -> RetrievalResults] : n \in 0..MaxResults} }

\* The outcomes the configuration runs draw from: a failure and one text.
ConfigOutcomes ==
    { [raised |-> TRUE, retrievalResults |-> <<>>],
      [raised |-> FALSE, retrievalResults |-> <<[text |-> "a", score |-> 2]>>] }

Queries == {"q"}

\* A returned str is the sequence of the pieces it is made of.
\* sep.join(parts)
RECURSIVE join(_, _)
join(sep, parts) ==
    IF parts = <<>> THEN <<>>
    ELSE IF Len(parts) = 1 THEN parts[1]
    ELSE parts[1] \o <<sep>> \o join(sep, Tail(parts))

\* f"{score:.4f}"
format_score(score) ==
    IF score = 1 THEN "0.1000" ELSE IF score = 2 THEN "0.2000" ELSE "0.3000"

\* The results list of search_knowledge_base: the non-empty content texts.
RECURSIVE contents(_)
contents(rs) ==
    IF rs = <<>> THEN <<>>
    ELSE (IF Head(rs).text # "" THEN << <<Head(rs).text>> >> ELSE <<>>)
            \o contents(Tail(rs))

\* The results list of query_knowledge_base: f"[Score: {score:.4f}]\n{content}"
\* for the non-empty content texts.
RECURSIVE scored_contents(_)
scored_contents(rs) ==
    IF rs = <<>> THEN <<>>
    ELSE (IF Head(rs).text # ""
          THEN << <<"[Score: ", format_score(Head(rs).score), "]\n", Head(rs).text>> >>
          ELSE <<>>)
            \o scored_contents(Tail(rs))

NO_RESULTS == <<"No relevant information found in the knowledge base.">>

\* except Exception as e: return f"Error accessing knowledge base: {str(e)}"
error_text(e) == <<"Error accessing knowledge base: ", e>>

\* A variant that calls retrieve again after a failure.
retrieve_retried(knowledge_base_id, query, outcome) ==
    IF outcome.raised
    THEN <<[knowledgeBaseId |-> knowledge_base_id, text |-> query],
           [knowledgeBaseId |-> knowledge_base_id, text |-> query]>>
    ELSE <<[knowledgeBaseId |-> knowledge_base_id, text |-> query]>>

\* client.retrieve(knowledgeBaseId=..., retrievalQuery={'text': query}, ...)
retrieve(knowledge_base_id, query, outcome) ==
    <<[knowledgeBaseId |-> knowledge_base_id, text |-> query]>>

\* One call of a tool: the retrieve requests it issued, what it returned and
\* what it raised.
ToolCall(knowledge_base_id, query, outcome, results, sep) ==
    [setting |-> knowledge_base_id,
     outcome |-> IF outcome.raised THEN "Error accessing knowledge base" ELSE "results",
     response |-> outcome,
     retrieves |-> retrieve(knowledge_base_id, query, outcome),
     returned |-> IF outcome.raised THEN error_text("retrieve failed")
                  ELSE IF results # <<>> THEN join(sep, results)
                  ELSE NO_RESULTS,
     raised |-> <<>>]

\* search_knowledge_base: one retrieve with the module's identifier; the
\* texts joined by a blank line, the fixed message, or the exception as text.
search_knowledge_base_on(outcomes) ==
    \E query \in Queries, outcome \in outcomes :
        CallWith("kb_tool",
                 ToolCall(component["kb_tool"].setting, query, outcome,
                          contents(outcome.retrievalResults), "\n\n"))

search_knowledge_base == search_knowledge_base_on(ConfigOutcomes)

\* BedrockKnowledgeBaseMCPServer.__init__
BedrockKnowledgeBaseMCPServer_init ==
    /\ component["BedrockKnowledgeBaseMCPServer"].state = "none"
    /\ LET knowledge_base_id == getenv(KNOWLEDGE_BASE_ID, None)
       IN  component' = [component EXCEPT !["BedrockKnowledgeBaseMCPServer"] =
               IF knowledge_base_id_missing(knowledge_base_id)
               THEN Failed(value_error) ELSE Constructed(knowledge_base_id)]
    /\ UNCHANGED <<environ, gateway, agents>>

\* query_knowledge_base, the tool the server registers: each text under its
\* score, the blocks separated by a rule.
query_knowledge_base_on(outcomes) ==
    \E query \in Queries, outcome \in outcomes :
        CallWith("BedrockKnowledgeBaseMCPServer",
                 ToolCall(component["BedrockKnowledgeBaseMCPServer"].setting,
                          query, outcome,
                          scored_contents(outcome.retrievalResults),
                          "\n\n---\n\n"))

query_knowledge_base == query_knowledge_base_on(ConfigOutcomes)

\* StrandsJiraAgent.__init__: the model, the prompt and an MCPClient around
\* a lambda that is not called yet; no setting is read.
StrandsJiraAgent_init ==
    /\ component["StrandsJiraAgent"].state = "none"
    /\ component' = [component EXCEPT !["StrandsJiraAgent"] = Constructed(None)]
    /\ UNCHANGED <<environ, gateway, agents>>

\* StrandsJiraAgent.invoke: `with self.mcp_client` calls the lambda, which
\* starts the knowledge-base server in a child process with
\* os.getenv("KNOWLEDGE_BASE_ID", ""); the child's constructor raises on a
\* missing identifier and the call fails.
StrandsJiraAgent_invoke ==
    LET knowledge_base_id == getenv(KNOWLEDGE_BASE_ID, "")
    IN  IF knowledge_base_id_missing(knowledge_base_id)
        THEN Call("StrandsJiraAgent", knowledge_base_id, "raised")
        ELSE Call("StrandsJiraAgent", knowledge_base_id, "response")

\* The keys a caller may pass to the constructor (None: no argument).
ApiKeys == {None, "sk-arg"}

\* The module reads the endpoint with its default and the key without one;
\* the constructor takes the endpoint, and the key it is given or else the
\* configured one.
LiteLLMGatewayClient_init ==
    /\ component["LiteLLMGatewayClient"].state = "none"
    /\ \E api_key \in ApiKeys :
         component' = [component EXCEPT !["LiteLLMGatewayClient"] =
             GatewayClient(getenv(LITELLM_API_ENDPOINT, DEFAULT_ENDPOINT),
                           py_or(api_key, getenv(LITELLM_KEY, None)))]
    /\ UNCHANGED <<environ, gateway, agents>>

\* Any of the four operations: a request to self.api_endpoint with the
\* headers of _get_headers.
LiteLLMGatewayClient_request ==
    \E outcome \in {"response", "raised"} :
        CallWith("LiteLLMGatewayClient",
                 [setting |-> component["LiteLLMGatewayClient"].setting,
                  headers |-> get_headers(component["LiteLLMGatewayClient"].api_key),
                  outcome |-> outcome])

\* The processes start in any environment, with nothing constructed.
ConfigInit ==
    /\ NoCall
    /\ NoRequest
    /\ environ \in Environs
    /\ component = [c \in Components |-> NotConstructed]

ConfigNext ==
    \/ kb_tool_import
    \/ search_knowledge_base
    \/ BedrockKnowledgeBaseMCPServer_init
    \/ query_knowledge_base
    \/ StrandsJiraAgent_init
    \/ StrandsJiraAgent_invoke
    \/ LiteLLMGatewayClient_init
    \/ LiteLLMGatewayClient_request

SpecConfig == ConfigInit /\ [][ConfigNext]_vars

\* ------------------------------------------------ the knowledge-base tools
\* The RAG agent's process imports kb_tool and calls its tool; the MCP
\* server runs in a process of its own.  Both find the identifier set.
rag_agent_process ==
    /\ component["BedrockKnowledgeBaseMCPServer"].state = "none"
    /\ \/ kb_tool_import
       \/ search_knowledge_base_on(RetrieveOutcomes)

mcp_server_process ==
    /\ component["kb_tool"].state = "none"
    /\ \/ BedrockKnowledgeBaseMCPServer_init
       \/ query_knowledge_base_on(RetrieveOutcomes)

ToolsInit ==
    /\ NoCall
    /\ NoRequest
    /\ environ = [n \in SettingNames |->
                     IF n = KNOWLEDGE_BASE_ID THEN "kb-1" ELSE Unset]
    /\ component = [c \in Components |-> NotConstructed]

ToolsNext ==
    \/ rag_agent_process
    \/ mcp_server_process

SpecTools == ToolsInit /\ [][ToolsNext]_vars

\* ------------------------------------------------- StrandsAgentController
\* memory_client.get_session_context(...).results
get_session_context(session_id) ==
    IF memory[session_id] = Missing THEN <<>> ELSE <<memory[session_id]>>

\* Variant: without a session id the conversation of the last invoke stays.
load_conversation_kept(self, request) ==
    IF request.session_id # None
    THEN LET session_results == get_session_context(request.session_id)
         IN  IF session_results # <<>> THEN session_results[1]
             ELSE SessionContext(request.session_id)
    ELSE self.conversation
\* "Get or create conversation": the value self.conversation is bound to.
load_conversation(self, request) ==
    IF request.session_id # None
    THEN LET session_results == get_session_context(request.session_id)
         IN  IF session_results # <<>> THEN session_results[1]
             ELSE SessionContext(request.session_id)
    ELSE SessionContext(request.session_id)

\* The first non-empty text of the message's content, or "".
RECURSIVE user_text(_)
user_text(content) ==
    IF content = <<>> THEN ""
    ELSE IF Head(content) # "" THEN Head(content)
    ELSE user_text(Tail(content))

\* What self.agent(user_text) may do: answer, or raise.
AgentAnswers == {"a", "<raise>"}

\* StrandsAgentWrapper.invoke: the conversation self holds afterwards, the
\* calls made to the collaborators in order, the contexts upserted, and the
\* outcome.
StrandsAgentWrapper_invoke(self, request, answer) ==
    LET loaded == load_conversation(self, request)
        asked == add_message(loaded, request.message)
        text == user_text(request.message.content)
        looked == IF request.session_id # None THEN <<"get_session_context">> ELSE <<>>
        response_message == [role |-> "assistant", content |-> <<answer>>]
        saved == add_message(asked, response_message)
    IN  IF text = ""
        THEN [conversation |-> asked, calls |-> looked, upserts |-> <<>>,
              outcome |-> "ValueError"]
        ELSE IF answer = "<raise>"
        THEN [conversation |-> asked, calls |-> looked \o <<"agent">>,
              upserts |-> <<>>, outcome |-> "agent error"]
        ELSE [conversation |-> saved,
              calls |-> looked \o <<"agent", "upsert_session_context">>,
              upserts |-> <<saved>>, outcome |-> "response",
              response |-> [session_id |-> saved.session_id,
                            message |-> response_message]]

\* Variant: a wrapper is made for every invoke.
needs_agent_always(current) == TRUE
\* if cls._agent is None
needs_agent(current) == current = NoAgent

\* memory_client.upsert_session_context, for each context in turn.
RECURSIVE upsert_session_context(_, _)
upsert_session_context(store, contexts) ==
    IF contexts = <<>> THEN store
    ELSE upsert_session_context(
             [store EXCEPT ![Head(contexts).session_id] = Head(contexts)],
             Tail(contexts))

\* POST /invoke: StrandsAgentController.invoke.  _get_agent constructs the
\* wrapper when there is none, which may raise before the assignment; then
\* the wrapper's invoke runs.
StrandsAgentController_invoke ==
    /\ Len(log) < MaxRequests
    /\ \E request \in AgenticRequests, answer \in AgentAnswers :
         \/ /\ needs_agent(agent)
            /\ built' = Append(built, "raised")
            /\ log' = Append(log, [kind |-> "invoke", request |-> request,
                                    instance |-> 0, calls |-> <<>>, upserts |-> <<>>,
                                    outcome |-> "construction error"])
            /\ UNCHANGED <<agent, memory>>
         \/ LET made == needs_agent(agent)
                self == IF made
                        THEN [id |-> Len(built) + 1, conversation |-> SessionContext(None)]
                        ELSE agent
                done == StrandsAgentWrapper_invoke(self, request, answer)
            IN  /\ built' = IF made THEN Append(built, "ok") ELSE built
                /\ agent' = [self EXCEPT !.conversation = done.conversation]
                /\ memory' = upsert_session_context(memory, done.upserts)
                /\ log' = Append(log, [kind |-> "invoke", request |-> request,
                                        instance |-> self.id] @@ done)
    /\ UNCHANGED <<gateway, cfg, generator>>

\* GET /health
health ==
    /\ Len(log) < MaxRequests
    /\ log' = Append(log, [kind |-> "health"])
    /\ UNCHANGED <<gateway, cfg, agent, built, memory, generator>>

\* The server is imported in an environment of its own.
AgentInit ==
    /\ NoCall
    /\ NoRequest
    /\ environ = [n \in SettingNames |-> Unset]
    /\ component = [c \in Components |-> NotConstructed]

AgentNext ==
    \/ StrandsAgentController_invoke
    \/ health

SpecAgent == AgentInit /\ [][AgentNext]_vars

\* ------------------------------------------------- the agents' invoke_stream
\* The requests that carry a text for the agent.
StreamRequests == {r \in AgenticRequests : user_text(r.message.content) # ""}

\* Calling invoke_stream creates the async generator; its body has not
\* started.
AsyncGenerator(name, request, source, setup) ==
    [agent |-> name, request |-> request, events |-> source.events,
     end |-> source.end, setup |-> setup, consumed |-> 0, pending |-> <<>>,
     at |-> "start", pc |-> "created", mcp |-> "unused",
     yielded |-> <<>>, raised |-> <<>>]

\* Leaving `with self.mcp_client`, on any path.
mcp_exit(s) == [s EXCEPT !.mcp = IF @ = "open" THEN "closed" ELSE @]

\* A variant of the handler that lets the exception go to the consumer.
stream_error_propagated(s, error) ==
    [mcp_exit(s) EXCEPT !.pc = "finished", !.at = "end", !.pending = <<>>,
                        !.raised = Append(@, error)]

\* except Exception as e: yield ErrorEvent(session_id=request.session_id,
\* error=str(e)); the generator is suspended at that yield.
stream_error(s, error) ==
    [mcp_exit(s) EXCEPT !.pc = "suspended", !.at = "except", !.pending = <<>>,
                        !.yielded = Append(@, ErrorEvent(s.request.session_id, error))]

\* The generator runs from where it stands to its next yield or to its end.
RECURSIVE resume(_)
resume(s) ==
    IF s.at = "except"
    THEN [s EXCEPT !.pc = "finished", !.at = "end"]
    ELSE IF s.at = "start"
    THEN IF s.setup = "start error"
         THEN stream_error(s, "start error")
         ELSE IF s.setup = "list_tools error"
         THEN stream_error([s EXCEPT !.mcp = "open"], "list_tools error")
         ELSE resume([s EXCEPT !.at = "try",
                               !.mcp = IF s.agent = "StrandsJiraAgent"
                                       THEN "open" ELSE @])
    ELSE IF s.pending # <<>>
    THEN [s EXCEPT !.pc = "suspended", !.pending = Tail(@),
                   !.yielded = Append(@, Head(s.pending))]
    ELSE IF s.consumed < Len(s.events)
    THEN resume([s EXCEPT !.consumed = @ + 1,
                          !.pending = convert_chunks_to_events(
                                          s.request.session_id,
                                          s.events[s.consumed + 1])])
    ELSE IF s.end = "<raise>"
    THEN stream_error(s, "stream error")
    ELSE [mcp_exit(s) EXCEPT !.pc = "finished", !.at = "end"]

StrandsAgenticRagAgent_invoke_stream ==
    /\ generator = NoStream
    /\ \E request \in StreamRequests, source \in AgentStreams :
         generator' = AsyncGenerator("StrandsAgenticRagAgent", request, source, "ok")
    /\ UNCHANGED <<gateway, cfg, agent, built, memory, log>>

StrandsJiraAgent_invoke_stream ==
    /\ generator = NoStream
    /\ \E request \in StreamRequests, source \in AgentStreams, setup \in McpSetups :
         generator' = AsyncGenerator("StrandsJiraAgent", request, source, setup)
    /\ UNCHANGED <<gateway, cfg, agent, built, memory, log>>

\* The consumer asks for the next item.
invoke_stream_anext ==
    /\ generator # NoStream
    /\ generator.pc \in {"created", "suspended"}
    /\ generator' = resume(generator)
    /\ UNCHANGED <<gateway, cfg, agent, built, memory, log>>

\* The consumer closes the generator before its end: GeneratorExit is not
\* an Exception, the handler does not run.
invoke_stream_aclose ==
    /\ generator # NoStream
    /\ generator.pc \in {"created", "suspended"}
    /\ generator' = [mcp_exit(generator) EXCEPT !.pc = "closed", !.pending = <<>>]
    /\ UNCHANGED <<gateway, cfg, agent, built, memory, log>>

\* The consumer drops a generator that has ended.
invoke_stream_done ==
    /\ generator # NoStream
    /\ generator.pc \in {"finished", "closed"}
    /\ generator' = NoStream
    /\ UNCHANGED <<gateway, cfg, agent, built, memory, log>>

StreamNext ==
    \/ StrandsAgenticRagAgent_invoke_stream
    \/ StrandsJiraAgent_invoke_stream
    \/ invoke_stream_anext
    \/ invoke_stream_aclose
    \/ invoke_stream_done

SpecStream == AgentInit /\ [][StreamNext]_vars

Next ==
    \E i \in Invs :
        \/ SyncStream(i)
        \/ AsyncStream(i)
        \/ chat_invoke(i)
        \/ embed_invoke(i)
        \/ Forget(i)

Spec == Init /\ [][Next]_vars

\* ================================================================ claims
StreamOps == {"chat_invoke_stream", "chat_invoke_stream_async"}

\* A line whose chunk reaches process_streaming_chunk.
NonIgnored(line) ==
    /\ line.kind # "empty"
    /\ parse_streaming_line(line) # Null
    /\ "done" \notin DOMAIN parse_streaming_line(line)

\* The chunks of a line sequence, in arrival order.
ChunksOf(ls) ==
    LET kept == SelectSeq(ls, NonIgnored)
    IN  [k \in 1..Len(kept) |-> parse_streaming_line(kept[k])]

RECURSIVE FoldMerge(_, _)
FoldMerge(state, cs) ==
    IF cs = <<>> THEN state ELSE FoldMerge(merge(state, Head(cs)), Tail(cs))

IsPrefix(a, b) == Len(a) <= Len(b) /\ SubSeq(b, 1, Len(a)) = a

HttpErrors(i) == {k \in 1..Len(raised[i]) : raised[i][k].kind = "Exception"}

\* C1: in both streaming modes a failure status raises exactly one HTTP error
\* that carries the status and the body, before any line is read or any chunk
\* processed, and the sequence yields nothing.
C1_FailureStatusRaisesOnce ==
    \A i \in Invs :
        (op[i] \in StreamOps /\ status[i] # 0 /\ status[i] \notin 200..299) =>
            /\ pc[i] = "raised"
            /\ Len(raised[i]) = 1
            /\ raised[i][1].kind = "Exception"
            /\ raised[i][1].message[2] = status[i]
            /\ raised[i][1].message[4] \in ErrorBodies
            /\ received[i] = <<>>
            /\ yielded[i] = <<>>
            /\ accumulated_state[i] = Unbound

C1_Witness ==
    \E i, j \in Invs :
        /\ op[i] = "chat_invoke_stream" /\ op[j] = "chat_invoke_stream_async"
        /\ status[i] = 500 /\ status[j] = 500
        /\ raised[i] = <<api_error(500, "server error")>>
        /\ raised[j] = <<api_error(500, "server error")>>

\* The lines before the first terminal sentinel.
RECURSIVE BeforeSentinel(_)
BeforeSentinel(ls) ==
    IF ls = <<>> \/ Head(ls) = DoneLine THEN <<>>
    ELSE <<Head(ls)>> \o BeforeSentinel(Tail(ls))

\* C2: once `data: [DONE]` is received the sequence ends: no line after the
\* sentinel is read, merged or yielded, so the yields are those of the chunks
\* before the sentinel.
C2_NothingAfterSentinel ==
    \A i \in Invs :
        op[i] \in StreamOps =>
            /\ Len(yielded[i]) = Len(ChunksOf(BeforeSentinel(received[i])))
            /\ (DoneLine \in {received[i][k] : k \in 1..Len(received[i])}
                    => received[i][Len(received[i])] = DoneLine)

\* C3: in both streaming modes there is one yield per non-ignored chunk
\* received, in arrival order, and the k-th yield is the snapshot of the state
\* after merging exactly the first k chunks.
C3_OneYieldPerChunkInOrder ==
    \A i \in Invs :
        op[i] \in StreamOps =>
            LET cs == ChunksOf(received[i])
            IN  /\ Len(yielded[i]) = Len(cs)
                /\ \A k \in 1..Len(cs) :
                       yielded[i][k] = Snapshot(FoldMerge(EmptyState, SubSeq(cs, 1, k)))

C3_Witness ==
    \E i \in Invs :
        /\ op[i] \in StreamOps
        /\ Len(received[i]) = 2
        /\ Len(yielded[i]) = 2
        /\ yielded[i][1] # yielded[i][2]
        /\ yielded[i][2].tool_calls # <<>>

\* C4: the text of every snapshot is the concatenation, in arrival order and
\* without deduplication, of the deltaText of the chunks received so far; the
\* last one carries the concatenation of them all.
C4_TextIsConcatenation ==
    \A i \in Invs :
        op[i] \in StreamOps =>
            LET cs == ChunksOf(received[i])
            IN  /\ \A k \in 1..Len(yielded[i]) :
                       yielded[i][k].text = AllText(SubSeq(cs, 1, k))
                /\ (pc[i] = "done" /\ yielded[i] # <<>>)
                       => yielded[i][Len(yielded[i])].text = AllText(cs)

C4_Witness ==
    \E i \in Invs :
        /\ op[i] = "chat_invoke_stream"
        /\ pc[i] = "done"
        /\ Len(yielded[i]) = 2
        /\ yielded[i][1].text = <<"a">>
        /\ yielded[i][2].text = <<"a", "a">>

Bound(i) == accumulated_state[i] # Unbound

\* The argument buffer of every index is the ordered concatenation of that
\* index's argument deltas.
ArgumentsAreConcatenation ==
    \A i \in Invs :
        (op[i] \in StreamOps /\ Bound(i)) =>
            LET cs == ChunksOf(received[i])
            IN  /\ DOMAIN accumulated_state[i].tool_calls = Indexes(cs)
                /\ \A n \in Indexes(cs) :
                       accumulated_state[i].tool_calls[n].arguments
                           = AllArguments(FragmentsAt(cs, n))
                /\ yielded[i] # <<>> =>
                       LET last == yielded[i][Len(yielded[i])]
                           idx == SortedIndexes(Indexes(cs))
                       IN  /\ Len(last.tool_calls) = Len(idx)
                           /\ \A k \in 1..Len(idx) :
                                  last.tool_calls[k].arguments
                                      = AllArguments(FragmentsAt(cs, idx[k]))

\* During one stream, an index that has a fragment keeps it, and its
\* argument buffer only grows at the end.
ArgumentsOnlyAppended ==
    \A i \in Invs :
        (Bound(i) /\ accumulated_state'[i] # Unbound) =>
            \A n \in DOMAIN accumulated_state[i].tool_calls :
                /\ n \in DOMAIN accumulated_state'[i].tool_calls
                /\ IsPrefix(accumulated_state[i].tool_calls[n].arguments,
                            accumulated_state'[i].tool_calls[n].arguments)

\* C5: for every tool-call index the final argument string is the ordered
\* concatenation of that index's argument deltas, whatever the number of
\* chunks and their interleaving with other indexes, and an existing buffer is
\* only ever appended to.
C5_ToolArgumentsAppendOnly ==
    /\ []ArgumentsAreConcatenation
    /\ [][ArgumentsOnlyAppended]_vars

C5_Witness ==
    \E i \in Invs :
        /\ op[i] \in StreamOps
        /\ Bound(i)
        /\ DOMAIN accumulated_state[i].tool_calls = {0, 1}
        /\ accumulated_state[i].tool_calls[0].arguments = <<"{", "}">>
        /\ accumulated_state[i].tool_calls[1].arguments = <<"1">>

\* C6: the connection of the synchronous stream is released on every exit
\* path: exhausted, raised, or abandoned by the caller.
C6_SyncConnectionReleased ==
    \A i \in Invs :
        (op[i] = "chat_invoke_stream" /\ pc[i] \in Terminal) => conn[i] # "open"

\* C7: the connection and the HTTP client of the asynchronous stream are
\* released on every exit path: exhausted, raised, or abandoned by the caller.
C7_AsyncResourcesReleased ==
    \A i \in Invs :
        (op[i] = "chat_invoke_stream_async" /\ pc[i] \in Terminal) =>
            /\ conn[i] # "open"
            /\ client[i] # "open"

C7_Witness ==
    \E i \in Invs :
        /\ op[i] = "chat_invoke_stream_async"
        /\ pc[i] = "closed"
        /\ yielded[i] # <<>>
        /\ conn[i] = "released"
        /\ client[i] = "closed"

\* C8 as stated: in every operation the HTTP error is raised exactly when
\* the status is not a 2xx; every 2xx status is processed as a success.
C8_ErrorIffNon2xx ==
    \A i \in Invs :
        (op[i] # "none" /\ status[i] # 0) =>
            (HttpErrors(i) # {} <=> status[i] \notin 200..299)

\* C8 as amended: in every operation the HTTP error is raised exactly when
\* the status is not 200; a 200 response never raises it and goes on to be
\* processed.
C8_ErrorIffNot200 ==
    \A i \in Invs :
        (op[i] # "none" /\ status[i] # 0) =>
            /\ HttpErrors(i) # {} <=> status[i] # 200
            /\ status[i] # 200 => (pc[i] = "raised" /\ Len(raised[i]) = 1)
            /\ status[i] = 200 =>
                   IF op[i] \in StreamOps THEN Bound(i)
                   ELSE pc[i] = "returned" /\ Len(result[i]) = 1

C8_Witness ==
    \E i, j \in Invs :
        /\ op[i] = "embed_invoke" /\ status[i] = 201
        /\ raised[i] = <<api_error(201, "server error")>>
        /\ op[j] = "chat_invoke" /\ status[j] = 200 /\ pc[j] = "returned"

RECURSIVE RunAlone(_, _, _)
RunAlone(operation, ls, acc) ==
    IF ls = <<>> THEN acc
    ELSE LET r == IF operation = "chat_invoke_stream"
                  THEN stream_loop_body(Head(ls), acc.state)
                  ELSE stream_loop_body_async(Head(ls), acc.state)
         IN  RunAlone(operation, Tail(ls), [state |-> r.state, out |-> acc.out \o r.out])

\* C10: whatever the other invocations do, a streaming invocation holds the
\* state and has yielded the snapshots that it would have alone over its own
\* lines, starting from a fresh state.
C10_StateOwnedByInvocation ==
    \A i \in Invs :
        (op[i] \in StreamOps /\ Bound(i)) =>
            LET alone == RunAlone(op[i], received[i], [state |-> EmptyState, out |-> <<>>])
            IN  /\ accumulated_state[i] = alone.state
                /\ yielded[i] = alone.out

C10_Witness ==
    \E i, j \in Invs :
        /\ i # j
        /\ op[i] = "chat_invoke_stream" /\ op[j] \in StreamOps
        /\ pc[i] = "yielded" /\ pc[j] = "yielded"
        /\ yielded[i] # yielded[j]
        /\ accumulated_state[i] # accumulated_state[j]

TransportErrors(i) ==
    {k \in 1..Len(raised[i]) : raised[i][k] = transport_error}

TransportErrorIsSingle ==
    \A i \in Invs :
        (op[i] \in StreamOps /\ TransportErrors(i) # {}) =>
            /\ pc[i] = "raised"
            /\ raised[i] = <<transport_error>>

NothingAfterTransportError ==
    \A i \in Invs :
        (op[i] \in StreamOps /\ TransportErrors(i) # {}) =>
            \/ /\ yielded'[i] = yielded[i]
               /\ raised'[i] = raised[i]
               /\ received'[i] = received[i]
               /\ pc'[i] = "raised"
            \/ pc'[i] = "idle"

\* C11: a transport error of a streaming call, at connection or while lines
\* are read, reaches the caller as one error and ends the sequence: the
\* generator is finished, nothing is yielded or read after it, and the error
\* is not raised again.
C11_TransportErrorEndsSequence ==
    []TransportErrorIsSingle /\ [][NothingAfterTransportError]_vars

C11_Witness ==
    \E i, j \in Invs :
        /\ op[i] = "chat_invoke_stream" /\ status[i] = 200
        /\ yielded[i] # <<>> /\ raised[i] = <<transport_error>>
        /\ op[j] = "chat_invoke_stream_async" /\ status[j] = 0
        /\ raised[j] = <<transport_error>> /\ pc[j] = "raised"


\* The snapshots a stream yields for the lines ls: one per chunk, each of
\* the chunks merged up to it.
SnapshotsOf(ls) ==
    LET cs == ChunksOf(ls)
    IN  [k \in 1..Len(cs) |-> Snapshot(FoldMerge(EmptyState, SubSeq(cs, 1, k)))]

\* C12 as stated: a streaming invocation that ended with a transport error
\* has given its caller no snapshot.
C12_NoOutputOnTransportError ==
    \A i \in Invs :
        (op[i] \in StreamOps /\ TransportErrors(i) # {}) => yielded[i] = <<>>

\* C12: a call whose connection fails produces no output at all, and a
\* stream whose read fails later has given its caller exactly the snapshots
\* of the chunks read before the failure, none for the failed read; a
\* blocking call that fails returns nothing.
C12_NoOutputForFailedRead ==
    \A i \in Invs :
        TransportErrors(i) # {} =>
            /\ result[i] = <<>>
            /\ yielded[i] = SnapshotsOf(received[i])
            /\ status[i] = 0 => (received[i] = <<>> /\ yielded[i] = <<>>)
            /\ op[i] \notin StreamOps => status[i] = 0

C12_Witness ==
    \E i, j \in Invs :
        /\ op[i] = "chat_invoke_stream_async" /\ pc[i] = "raised"
        /\ raised[i] = <<transport_error>>
        /\ Len(received[i]) = 2 /\ Len(yielded[i]) = 1
        /\ op[j] = "chat_invoke" /\ raised[j] = <<transport_error>>


Malformed(line) ==
    /\ line.kind = "data"
    /\ line # DoneLine
    /\ parse_streaming_line(line) = Null

WellFormed(line) == ~Malformed(line)

MalformedLineDropped ==
    \A i \in Invs : \A line \in Lines :
        ( /\ op[i] \in StreamOps /\ Malformed(line)
          /\ pc[i] \in {"running", "yielded"}
          /\ received'[i] = Append(received[i], line) ) =>
            /\ yielded'[i] = yielded[i]
            /\ raised'[i] = raised[i]
            /\ accumulated_state'[i] = accumulated_state[i]
            /\ pc'[i] = "running"

MalformedLinesLeaveNoTrace ==
    \A i \in Invs :
        (op[i] \in StreamOps /\ accumulated_state[i] # Unbound) =>
            LET rest == SelectSeq(received[i], WellFormed)
            IN  /\ accumulated_state[i] = FoldMerge(EmptyState, ChunksOf(rest))
                /\ yielded[i] = SnapshotsOf(rest)

\* C14: a streaming line that is not JSON is dropped: reading it raises
\* nothing, yields nothing, keeps the stream state and leaves the generator
\* reading; the state and the yields are those of the stream without the
\* malformed lines, so later lines are merged and yielded as usual.
C14_MalformedLineDroppedSilently ==
    [][MalformedLineDropped]_vars /\ []MalformedLinesLeaveNoTrace

C14_Witness ==
    \E i \in Invs : \E c \in ChunkSet :
        /\ op[i] \in StreamOps
        /\ received[i] = <<BadLine, ChunkLine(c)>>
        /\ Len(yielded[i]) = 1 /\ raised[i] = <<>>
        /\ accumulated_state[i] = merge(EmptyState, c)


\* An empty line, or one of white space only.
IsBlank(line) == line.kind \in {"empty", "blank"}

NotBlank(line) == ~IsBlank(line)

BlankLineIgnored ==
    \A i \in Invs : \A line \in Lines :
        ( /\ op[i] \in StreamOps /\ IsBlank(line)
          /\ pc[i] \in {"running", "yielded"}
          /\ received'[i] = Append(received[i], line) ) =>
            /\ yielded'[i] = yielded[i]
            /\ raised'[i] = raised[i]
            /\ accumulated_state'[i] = accumulated_state[i]
            /\ pc'[i] = "running"

SameAsWithoutBlankLines ==
    \A i \in Invs :
        (op[i] \in StreamOps /\ Bound(i)) =>
            LET without == RunAlone(op[i], SelectSeq(received[i], NotBlank),
                                    [state |-> EmptyState, out |-> <<>>])
            IN  /\ accumulated_state[i] = without.state
                /\ yielded[i] = without.out

C16_NoRetries ==
    \A i \in Invs :
        /\ Len(requests[i]) <= 1
        /\ Len(raised[i]) <= 1
        /\ raised[i] # <<>> <=> pc[i] = "raised"
        /\ raised[i] # <<>> => result[i] = <<>>
        /\ status[i] # 0 => Len(requests[i]) = 1

C16_Witness ==
    \E i, j \in Invs :
        /\ op[i] = "chat_invoke" /\ status[i] = 500
        /\ Len(raised[i]) = 1 /\ Len(requests[i]) = 1
        /\ op[j] = "embed_invoke" /\ raised[j] = <<transport_error>>
        /\ Len(requests[j]) = 1


ChatOps == {"chat_invoke", "chat_invoke_stream", "chat_invoke_stream_async"}

EncodingErrors(i) ==
    {k \in 1..Len(raised[i]) : raised[i][k] = encoding_error}

\* C17: an invocation whose request could not be encoded has raised that
\* error and nothing else, without any network activity: no HTTP request
\* issued, no response, no connection and no client opened, nothing read,
\* yielded or returned.
C17_EncodingErrorBeforeNetwork ==
    \A i \in Invs :
        EncodingErrors(i) # {} =>
            /\ op[i] \in ChatOps
            /\ pc[i] = "raised"
            /\ raised[i] = <<encoding_error>>
            /\ requests[i] = <<>>
            /\ status[i] = 0
            /\ conn[i] = "none"
            /\ client[i] = "none"
            /\ received[i] = <<>> /\ yielded[i] = <<>> /\ result[i] = <<>>

C17_Witness ==
    \E i, j \in Invs :
        /\ op[i] = "chat_invoke" /\ raised[i] = <<encoding_error>>
        /\ requests[i] = <<>>
        /\ op[j] = "chat_invoke_stream_async" /\ raised[j] = <<encoding_error>>
        /\ client[j] = "none" /\ requests[j] = <<>>


\* Whether an argument buffer is a JSON text: an object without members, or
\* a number of ones.
ValidJson(buffer) ==
    \/ buffer = <<"{", "}">>
    \/ buffer # <<>> /\ \A k \in 1..Len(buffer) : buffer[k] = "1"

InvalidArguments(state) ==
    {idx \in DOMAIN state.tool_calls : ~ValidJson(state.tool_calls[idx].arguments)}

\* C18: a stream that terminates while the argument buffer of one of its
\* tool calls is not a JSON text fails with a ToolCallDecodeError at its
\* end: such a stream never ends as a success with nothing raised.
C18_DecodeErrorAtFinalize ==
    \A i \in Invs :
        ( /\ op[i] \in StreamOps /\ pc[i] \in {"done", "raised"}
          /\ status[i] = 200 /\ TransportErrors(i) = {}
          /\ InvalidArguments(accumulated_state[i]) # {} ) =>
            /\ pc[i] = "raised"
            /\ \E k \in 1..Len(raised[i]) : raised[i][k].kind = "ToolCallDecodeError"


\* The setting each component needs.
Needs(c) ==
    IF c = "LiteLLMGatewayClient" THEN LITELLM_API_ENDPOINT ELSE KNOWLEDGE_BASE_ID

CheckedAtConstruction == {"kb_tool", "BedrockKnowledgeBaseMCPServer"}

\* C19 as stated: a component whose setting is absent is never constructed,
\* and none of its calls is reached.
C19_FailFastAtConstruction ==
    \A c \in Components :
        environ[Needs(c)] = Unset =>
            /\ component[c].state # "constructed"
            /\ component[c].calls = <<>>

\* C19: the kb_tool module and BedrockKnowledgeBaseMCPServer fail at
\* construction when the knowledge-base identifier is absent, and no query
\* of theirs is reached without it; StrandsJiraAgent and
\* LiteLLMGatewayClient are constructed whatever the environment: every
\* invoke of the agent without the identifier fails in the call, and the
\* client without a configured endpoint calls the default one.
C19_FailFastWhereChecked ==
    /\ \A c \in CheckedAtConstruction :
          /\ environ[KNOWLEDGE_BASE_ID] = Unset =>
                (component[c].state # "constructed" /\ component[c].calls = <<>>)
          /\ \A k \in 1..Len(component[c].calls) :
                component[c].calls[k].setting = environ[KNOWLEDGE_BASE_ID]
    /\ component["StrandsJiraAgent"].state # "failed"
    /\ \A k \in 1..Len(component["StrandsJiraAgent"].calls) :
          component["StrandsJiraAgent"].calls[k].outcome = "raised"
              <=> environ[KNOWLEDGE_BASE_ID] = Unset
    /\ component["LiteLLMGatewayClient"].state # "failed"
    /\ \A k \in 1..Len(component["LiteLLMGatewayClient"].calls) :
          environ[LITELLM_API_ENDPOINT] = Unset =>
              component["LiteLLMGatewayClient"].calls[k].setting = DEFAULT_ENDPOINT

C19_Witness ==
    /\ environ[KNOWLEDGE_BASE_ID] = Unset /\ environ[LITELLM_API_ENDPOINT] = Unset
    /\ component["kb_tool"].state = "failed"
    /\ component["BedrockKnowledgeBaseMCPServer"].state = "failed"
    /\ component["StrandsJiraAgent"].state = "constructed"
    /\ Len(component["StrandsJiraAgent"].calls) = 1
    /\ component["LiteLLMGatewayClient"].state = "constructed"
    /\ Len(component["LiteLLMGatewayClient"].calls) = 1


\* The payload embed_invoke sends for a request.
EmbedPayloads ==
    {[model |-> request.model_id, input |-> request.text] : request \in EmbedRequests}

\* C20: embed_invoke issues one POST to /v1/embeddings whose payload is the
\* request's {model, input}, and on a successful response returns one
\* EmbedResponse whose embedding is that of the first element of the
\* response's data list.
C20_EmbedReturnsFirstEmbedding ==
    \A i \in Invs :
        op[i] = "embed_invoke" =>
            /\ Len(requests[i]) = 1
            /\ requests[i][1].method = "POST"
            /\ requests[i][1].url = "/v1/embeddings"
            /\ requests[i][1].json \in EmbedPayloads
            /\ DOMAIN requests[i][1].json = {"model", "input"}
            /\ pc[i] = "returned" =>
                  /\ Len(result[i]) = 1
                  /\ DOMAIN result[i][1] = {"embedding"}
                  /\ ( /\ "data" \in DOMAIN litellm_response[i]
                       /\ litellm_response[i].data # <<>>
                       /\ "embedding" \in DOMAIN litellm_response[i].data[1] ) =>
                        result[i][1].embedding = litellm_response[i].data[1].embedding

C20_Witness ==
    \E i \in Invs :
        /\ op[i] = "embed_invoke" /\ pc[i] = "returned"
        /\ requests[i] = <<http_post("/v1/embeddings", [model |-> "e", input |-> "foo"], FALSE)>>
        /\ Len(litellm_response[i].data) = 2
        /\ result[i] = <<[embedding |-> <<3>>]>>


\* The tokens that come from outside: the constructor's key, the configured
\* key.
SuppliedTokens == (ApiKeys \cup {"sk-env"}) \ {None, ""}

\* C21: every request of a client carries `Authorization: Bearer <token>`
\* with a token supplied from outside, the same on all its calls, never an
\* absent or placeholder one.
C21_BearerTokenAlwaysSupplied ==
    LET made == component["LiteLLMGatewayClient"].calls
    IN  \A k \in 1..Len(made) :
            /\ made[k].headers.Authorization[1] = "Bearer "
            /\ made[k].headers.Authorization[2] \in SuppliedTokens
            /\ made[k].headers = made[1].headers


Finished(i) ==
    /\ op[i] \in StreamOps /\ Bound(i)
    /\ accumulated_state[i].finish_reason # "none"

ChunkAfterFinishMerged ==
    \A i \in Invs : \A c \in ChunkSet :
        ( /\ Finished(i) /\ pc[i] \in {"running", "yielded"}
          /\ received'[i] = Append(received[i], ChunkLine(c)) ) =>
            /\ accumulated_state'[i] = merge(accumulated_state[i], c)
            /\ yielded'[i] = Append(yielded[i], Snapshot(accumulated_state'[i]))
            /\ raised'[i] = <<>>
            /\ pc'[i] = "yielded"

EndsOnlyWithTheLines ==
    \A i \in Invs :
        (op[i] \in StreamOps /\ pc[i] # "done" /\ pc'[i] = "done") =>
            /\ received'[i] = received[i]
            /\ yielded'[i] = yielded[i]

FinishDoesNotStop ==
    \A i \in Invs :
        Finished(i) => (pc[i] = "raised" <=> raised[i] = <<transport_error>>)

\* C22: a chunk with a finish reason does not stop the loop: a chunk read
\* after the finish reason was set is merged and yielded like any other,
\* nothing is raised for it, and the sequence ends only by the step that
\* finds the transport's lines exhausted, never by reading a line.
C22_ChunksAfterFinishStillMerged ==
    /\ [][ChunkAfterFinishMerged]_vars
    /\ [][EndsOnlyWithTheLines]_vars
    /\ []FinishDoesNotStop

C22_Witness ==
    \E i \in Invs : \E c \in ChunkSet :
        /\ op[i] \in StreamOps /\ pc[i] = "yielded"
        /\ Len(received[i]) = 2 /\ received[i][2] = ChunkLine(c)
        /\ Len(yielded[i]) = 2
        /\ yielded[i][1].stop_reason = "stop"
        /\ yielded[i][2] = Snapshot(accumulated_state[i])
        /\ yielded[i][2] # yielded[i][1]


NothingRunAtCreation ==
    \A i \in Invs :
        (op[i] = "chat_invoke_stream" /\ pc[i] = "created") =>
            /\ requests[i] = <<>>
            /\ raised[i] = <<>>
            /\ status[i] = 0
            /\ conn[i] = "none"
            /\ received[i] = <<>> /\ yielded[i] = <<>>
            /\ accumulated_state[i] = Unbound

\* The request and the errors of encoding, connection and status come in
\* the step from "created": the caller's first next().
WorkOnlyAtFirstItem ==
    \A i \in Invs :
        ( /\ op'[i] = "chat_invoke_stream"
          /\ \/ requests'[i] # requests[i] /\ requests'[i] # <<>>
             \/ status'[i] # status[i] /\ status'[i] # 0
             \/ \E k \in 1..Len(raised'[i]) :
                    /\ raised'[i][k].kind \in {"EncodingError", "Exception"}
                    /\ raised'[i] # raised[i] ) =>
            (op[i] = "chat_invoke_stream" /\ pc[i] = "created")

\* Exhausted lines end the sequence in that step, and an ended sequence
\* reads and yields nothing more.
EndsWhenLinesExhausted ==
    \A i \in Invs :
        (op[i] = "chat_invoke_stream" /\ pc[i] = "done") =>
            \/ pc'[i] = "idle"
            \/ /\ pc'[i] = "done"
               /\ received'[i] = received[i]
               /\ yielded'[i] = yielded[i]
               /\ requests'[i] = requests[i]

\* C23: calling chat_invoke_stream runs nothing: no request, no error;
\* encoding, the request and their errors happen in the caller's first
\* request for an item, and once the lines are exhausted the sequence has
\* ended for good.
C23_SyncStreamLazyAndFinite ==
    /\ []NothingRunAtCreation
    /\ [][WorkOnlyAtFirstItem]_vars
    /\ [][EndsWhenLinesExhausted]_vars

C23_Witness ==
    \E i, j \in Invs :
        /\ op[i] = "chat_invoke_stream" /\ pc[i] = "created"
        /\ op[j] = "chat_invoke_stream" /\ pc[j] = "done"
        /\ Len(requests[j]) = 1 /\ Len(yielded[j]) = 2


Invokes == {k \in 1..Len(log) : log[k].kind = "invoke"}

Constructions == {k \in 1..Len(built) : built[k] = "ok"}

OneWrapperForAllInvokes ==
    /\ Cardinality(Constructions) <= 1
    /\ Len(built) <= Cardinality(Invokes)
    /\ agent = NoAgent <=> Constructions = {}
    /\ \A k \in Invokes :
          \/ log[k].outcome = "construction error" /\ log[k].instance = 0
          \/ agent # NoAgent /\ log[k].instance = agent.id

ConstructedOnlyByInvoke ==
    /\ (built' # built \/ agent' # agent) =>
          /\ Len(log') = Len(log) + 1
          /\ log'[Len(log')].kind = "invoke"
    /\ (agent # NoAgent /\ agent' # NoAgent) =>
          (agent'.id = agent.id /\ built' = built)

FailedConstructionRetried ==
    ( /\ agent = NoAgent
      /\ Len(log') = Len(log) + 1
      /\ log'[Len(log')].kind = "invoke" ) =>
        /\ Len(built') = Len(built) + 1
        /\ built'[Len(built')] = "raised" => agent' = NoAgent
        /\ built'[Len(built')] = "ok" => agent' # NoAgent

\* C24: the controller holds a lazy singleton: at most one wrapper is ever
\* constructed, only by an invoke (never at import or by /health), every
\* invoke that reached the wrapper used that one instance, and while
\* construction raises nothing is stored and the next invoke constructs
\* again.
C24_LazySingleton ==
    /\ []OneWrapperForAllInvokes
    /\ [][ConstructedOnlyByInvoke]_vars
    /\ [][FailedConstructionRetried]_vars

C24_Witness ==
    /\ Len(log) = 3
    /\ log[1].kind = "health"
    /\ log[2].kind = "invoke" /\ log[2].outcome = "construction error"
    /\ log[3].kind = "invoke" /\ log[3].outcome = "response"
    /\ built = <<"raised", "ok">>
    /\ agent # NoAgent


\* The context an invoke for this session starts from, by the store alone.
ContextFor(session_id) ==
    IF session_id # None /\ memory[session_id] # Missing
    THEN memory[session_id]
    ELSE [session_id |-> session_id, messages |-> <<>>]

HasText(message) ==
    \E k \in 1..Len(message.content) : message.content[k] # ""

Position(calls, name) ==
    IF \E k \in 1..Len(calls) : calls[k] = name
    THEN CHOOSE k \in 1..Len(calls) : calls[k] = name
    ELSE 0

InvokePersistsOnce ==
    ( /\ Len(log') = Len(log) + 1
      /\ log'[Len(log')].kind = "invoke" ) =>
        LET e == log'[Len(log')]
            base == ContextFor(e.request.session_id)
        IN  IF e.outcome = "response"
            THEN /\ HasText(e.request.message)
                 /\ e.upserts =
                        <<[base EXCEPT !.messages =
                              @ \o <<e.request.message, e.response.message>>]>>
                 /\ e.response.message.role = "assistant"
                 /\ memory' = [memory EXCEPT ![e.request.session_id] = e.upserts[1]]
                 /\ Len(SelectSeq(e.calls,
                           LAMBDA c : c = "upsert_session_context")) = 1
                 /\ Position(e.calls, "agent") > 0
                 /\ Position(e.calls, "agent")
                        < Position(e.calls, "upsert_session_context")
            ELSE /\ e.upserts = <<>>
                 /\ memory' = memory
                 /\ Position(e.calls, "upsert_session_context") = 0

FailuresAreNotPersisted ==
    \A k \in Invokes :
        (~HasText(log[k].request.message) \/ log[k].outcome = "agent error") =>
            (log[k].outcome # "response" /\ log[k].upserts = <<>>)

\* C25: an invoke upserts the session context only when it succeeds, once
\* and after the agent call: the context the store holds for the request's
\* session (a fresh one without an id or for an unknown id) extended by
\* the request message and then the assistant response, nothing else; a
\* request without text or an agent call that raises upserts nothing.
C25_PersistOnlyOnSuccessOnce ==
    [][InvokePersistsOnce]_vars /\ []FailuresAreNotPersisted

C25_Witness ==
    /\ Len(log) = 3
    /\ log[1].kind = "invoke" /\ log[1].outcome = "response"
    /\ log[1].request.session_id = "s1"
    /\ log[2].kind = "invoke" /\ log[2].outcome = "ValueError"
    /\ log[3].kind = "invoke" /\ log[3].outcome = "response"
    /\ log[3].request.session_id = None
    /\ Len(log[3].upserts[1].messages) = 2
    /\ Len(memory["s1"].messages) = 2


Failure(s) == s.setup # "ok" \/ s.end = "<raise>"

RECURSIVE Converted(_, _, _)
Converted(session_id, events, n) ==
    IF n = 0 THEN <<>>
    ELSE Converted(session_id, events, n - 1)
            \o convert_chunks_to_events(session_id, events[n])

\* What the agent's events convert to before the failure, if any.
BeforeFailure(s) ==
    IF s.setup # "ok" THEN <<>>
    ELSE Converted(s.request.session_id, s.events, Len(s.events))

ErrorsIn(items) == SelectSeq(items, LAMBDA e : e.type = "ErrorEvent")

StreamNeverRaises ==
    generator # NoStream =>
        /\ generator.raised = <<>>
        /\ Len(ErrorsIn(generator.yielded)) <= 1
        /\ IF ErrorsIn(generator.yielded) = <<>>
           THEN IsPrefix(generator.yielded, BeforeFailure(generator))
           ELSE /\ Failure(generator)
                /\ generator.yielded =
                      BeforeFailure(generator)
                         \o <<ErrorEvent(generator.request.session_id,
                                         generator.yielded[Len(generator.yielded)].error)>>
        /\ generator.pc = "finished" =>
              IF Failure(generator)
              THEN Len(ErrorsIn(generator.yielded)) = 1
              ELSE generator.yielded = BeforeFailure(generator)

EndsAfterErrorEvent ==
    ( /\ generator # NoStream /\ generator' # NoStream
      /\ generator.pc = "suspended" /\ generator'.pc # "closed"
      /\ ErrorsIn(generator.yielded) # <<>> ) =>
        (generator'.pc = "finished" /\ generator'.yielded = generator.yielded
            /\ generator'.raised = <<>>)

\* C26: invoke_stream of the RAG and Jira agents never lets an exception
\* of the agent's stream reach the consumer: the events converted before
\* the failure are yielded in arrival order, then one ErrorEvent with the
\* request's session id as the last item, and the next request for an item
\* ends the sequence normally; without a failure no ErrorEvent is yielded.
C26_StreamErrorsBecomeOneErrorEvent ==
    []StreamNeverRaises /\ [][EndsAfterErrorEvent]_vars

C26_Witness ==
    /\ generator # NoStream
    /\ generator.pc = "finished"
    /\ generator.agent = "StrandsJiraAgent"
    /\ generator.end = "<raise>"
    /\ generator.request.session_id = "s1"
    /\ Len(generator.yielded) = 4
    /\ generator.yielded[1].type = "TextDeltaEvent"
    /\ generator.yielded[2].type = "ToolCallEvent"
    /\ generator.yielded[4] = ErrorEvent("s1", "stream error")
    /\ generator.mcp = "closed"


Tools == {"kb_tool", "BedrockKnowledgeBaseMCPServer"}

ToolCalls(c) == 1..Len(component[c].calls)

\* The non-empty content texts of a response, in retrieval order.
Texts(rs) == SelectSeq([k \in 1..Len(rs) |-> rs[k].text], LAMBDA t : t # "")

\* A returned str without the separator of its tool.
Unjoined(c, returned) ==
    SelectSeq(returned,
              LAMBDA piece : piece # (IF c = "kb_tool" THEN "\n\n" ELSE "\n\n---\n\n"))

\* What every call of either tool does, whatever the shape of the joined text.
ToolNeverRaises(c, k) ==
    LET call == component[c].calls[k]
        texts == Texts(call.response.retrievalResults)
    IN  /\ call.raised = <<>>
        /\ Len(call.retrieves) = 1
        /\ call.retrieves[1].knowledgeBaseId = environ[KNOWLEDGE_BASE_ID]
        /\ call.response.raised =>
              (Len(call.returned) = 2
                  /\ call.returned[1] = "Error accessing knowledge base: ")
        /\ (~call.response.raised /\ texts = <<>>) =>
              call.returned =
                 <<"No relevant information found in the knowledge base.">>

\* C27 as stated: with at least one non-empty text, either tool returns the
\* texts joined in retrieval order.
C27_ToolsReturnJoinedTexts ==
    \A c \in Tools : \A k \in ToolCalls(c) :
        LET call == component[c].calls[k]
            texts == Texts(call.response.retrievalResults)
        IN  /\ ToolNeverRaises(c, k)
            /\ (~call.response.raised /\ texts # <<>>) =>
                  Unjoined(c, call.returned) = texts

\* Each text under the header of its score.
RECURSIVE UnderScores(_)
UnderScores(rs) ==
    IF rs = <<>> THEN <<>>
    ELSE (IF Head(rs).text # ""
          THEN <<"[Score: ", format_score(Head(rs).score), "]\n", Head(rs).text>>
          ELSE <<>>)
            \o UnderScores(Tail(rs))

\* C27: neither knowledge-base tool raises, each call issues exactly one
\* retrieve request and returns a string: the error message when retrieve
\* fails, the fixed message when no text is non-empty, and otherwise the
\* non-empty texts in retrieval order, which search_knowledge_base joins by
\* a blank line and query_knowledge_base returns each under a
\* "[Score: ...]" header, the blocks separated by a "---" rule.
C27_ToolsReturnTextsOrScoredTexts ==
    \A c \in Tools : \A k \in ToolCalls(c) :
        LET call == component[c].calls[k]
            texts == Texts(call.response.retrievalResults)
        IN  /\ ToolNeverRaises(c, k)
            /\ (~call.response.raised /\ texts # <<>>) =>
                  Unjoined(c, call.returned) =
                     IF c = "kb_tool" THEN texts
                     ELSE UnderScores(call.response.retrievalResults)
            /\ (~call.response.raised /\ Len(texts) = 2) =>
                  Len(call.returned) = Len(Unjoined(c, call.returned)) + 1

C27_Witness ==
    /\ Len(component["BedrockKnowledgeBaseMCPServer"].calls) = 2
    /\ component["BedrockKnowledgeBaseMCPServer"].calls[1].response.raised
    /\ component["BedrockKnowledgeBaseMCPServer"].calls[2].returned =
          <<"[Score: ", "0.3000", "]\n", "b", "\n\n---\n\n",
            "[Score: ", "0.2000", "]\n", "a">>

====
